---- MODULE Spec2Model ----
\* Verification model of market-decision-engine:
\*   - pipeline/eod.py  run(ctx, services): the EOD orchestrator
\*   - contract/schemas/market.py DecisionCore and
\*     domain/rules/market_data.py _build_decision_core_for_day
EXTENDS Integers, Sequences, FiniteSets, TLC

\* ------------------------------------------------------------------
\* Bounds of the model
\* ------------------------------------------------------------------
Symbols == {"A", "B"}

\* longest list build_universe returns
MaxUniverse == 2

\* longest list select_candidates / rank_candidates return
MaxCand == 2

SeqsUpTo(S, n) == UNION {[1..k -> S] : k \in 0..n}

IsPrefix(s, t) == Len(s) <= Len(t) /\ SubSeq(t, 1, Len(s)) = s

Last(s) == s[Len(s)]

Count(s, x) == Cardinality({k \in 1..Len(s) : s[k] = x})

Range(s) == {s[k] : k \in 1..Len(s)}

\* ------------------------------------------------------------------
\* Exception classes
\* ------------------------------------------------------------------
\* Direct base class of every exception class of the model.  The classes of
\* exceptions.py keep their names; the classes of contract/errors.py, which
\* form a separate hierarchy with its own root, are prefixed "contract.".
Parent ==
    [ MarketDecisionEngineError |-> "Exception",
      FatalError |-> "MarketDecisionEngineError",
      DegradedError |-> "MarketDecisionEngineError",
      SkipSymbol |-> "MarketDecisionEngineError",
      ContractViolation |-> "FatalError",
      DataQualityError |-> "DegradedError",
      ExternalServiceError |-> "DegradedError",
      ConfigurationError |-> "FatalError" ]
    @@ ( "contract.MarketDecisionEngineError" :> "Exception"
      @@ "contract.ContractError" :> "contract.MarketDecisionEngineError"
      @@ "contract.ConfigurationError" :> "contract.MarketDecisionEngineError"
      @@ "contract.DataError" :> "contract.MarketDecisionEngineError"
      @@ "contract.ExternalDataError" :> "contract.DataError"
      @@ "contract.ExecutionError" :> "contract.MarketDecisionEngineError"
      @@ "contract.LLMError" :> "contract.MarketDecisionEngineError"
      @@ "contract.SkipTicker" :> "contract.MarketDecisionEngineError"
      @@ "contract.FatalPipelineError" :> "contract.MarketDecisionEngineError"
      @@ "ValueError" :> "Exception"
      @@ "ValidationError" :> "ValueError"
      @@ "Exception" :> "BaseException" )

\* isinstance(e, c) for an exception e of class k
RECURSIVE IsInstance(_, _)
IsInstance(k, c) ==
    IF k = c THEN TRUE
    ELSE IF k \notin DOMAIN Parent THEN FALSE
    ELSE IsInstance(Parent[k], c)

\* severity attribute set by the constructors of contract/errors.py
Severity ==
    ( "contract.MarketDecisionEngineError" :> "error"
   @@ "contract.ContractError" :> "fatal"
   @@ "contract.ConfigurationError" :> "fatal"
   @@ "contract.DataError" :> "error"
   @@ "contract.ExternalDataError" :> "error"
   @@ "contract.ExecutionError" :> "error"
   @@ "contract.LLMError" :> "degraded"
   @@ "contract.SkipTicker" :> "skip"
   @@ "contract.FatalPipelineError" :> "fatal" )

\* The exception classes the injected services raise in the model.
RaisedKinds ==
    { "SkipSymbol", "DegradedError", "DataQualityError",
      "FatalError", "ContractViolation", "ConfigurationError",
      "ValueError",
      "contract.DataError", "contract.ExternalDataError",
      "contract.SkipTicker", "contract.LLMError" }

NoError == [kind |-> "none", msg |-> <<>>, raisedBy |-> "none", sym |-> "none", causeKind |-> "none"]

\* exception of class k raised by service svc while working on sym; its
\* message is the text the service gives for that symbol
ServiceError(k, svc, sym) ==
    [kind |-> k, msg |-> <<"msg", sym>>, raisedBy |-> svc, sym |-> sym, causeKind |-> "none"]

\* exception of class k created by run itself (or by a schema it constructs)
RunError(k, text) ==
    [kind |-> k, msg |-> <<text>>, raisedBy |-> "run", sym |-> "none", causeKind |-> "none"]

\* FatalError(f"{text}: {e}") from e
Promote(text, e) ==
    [kind |-> "FatalError", msg |-> <<text>> \o e.msg, raisedBy |-> "run", sym |-> e.sym, causeKind |-> e.kind]

\* ------------------------------------------------------------------
\* Services
\* ------------------------------------------------------------------
RequiredServices ==
    << "build_universe", "load_ohlcv", "preprocess_ohlcv",
       "build_daily_features", "decide_for_symbol", "build_report" >>

OptionalServices == {"select_candidates", "rank_candidates"}

FeatureServices == << "load_ohlcv", "preprocess_ohlcv", "build_daily_features" >>

PerSymbolServices == Range(FeatureServices) \cup {"decide_for_symbol"}

\* ------------------------------------------------------------------
\* EngineContext
\* ------------------------------------------------------------------
NoteKeys ==
    { "degraded_reasons", "universe_size", "skipped_symbols",
      "feature_ready_symbols", "candidate_size" }

\* A note is <<>> when the key is absent and <<v>> when it holds v.
Absent == <<>>

\* notes.get("degraded_reasons", [])
Reasons(c) ==
    IF c.notes["degraded_reasons"] = Absent THEN <<>> ELSE c.notes["degraded_reasons"][1]

\* The list object bound to the local name `skipped` of run.
SkippedRef == "ref:skipped"

CtxWithNote_DropsDegraded(c, key, value) ==
    [c EXCEPT !.degraded = FALSE, !.notes = [c.notes EXCEPT ![key] = <<value>>]]

CtxWithNote(c, key, value) ==
    [c EXCEPT !.notes = [c.notes EXCEPT ![key] = <<value>>]]

CtxMarkDegraded(c, reason) ==
    [c EXCEPT !.degraded = TRUE,
              !.notes = [c.notes EXCEPT !["degraded_reasons"] = <<Append(Reasons(c), reason)>>]]

\* ------------------------------------------------------------------
\* State of one call of run(ctx, services)
\* ------------------------------------------------------------------
VARIABLES
    pc,                 \* position in run: require, universe, stage2, select, rank, stage4, report, done, raised
    absent,             \* the fields of PipelineServices that are None
    ctx0,               \* the context run was called with
    ctx,                \* the local name ctx of run
    ctxs,               \* every context value run has bound to ctx, in order
    symbols,            \* the list build_universe returned
    i,                  \* index of the stage-2 loop
    per_symbol,         \* keys of the dict per_symbol, in insertion order
    skipped,            \* the list object skipped
    degraded_reasons,   \* the local list degraded_reasons
    candidates,         \* candidate_symbols
    j,                  \* index of the stage-4 loop
    decisions,          \* the list decisions
    pack,               \* the DecisionPack, <<>> before it is built
    exc,                \* the exception that left run, NoError if none
    report,             \* the value run returned, <<>> if none
    called,             \* the services invoked so far
    lastCall,           \* the most recent service invocation: [svc, sym, ctx]
    lastRaised,         \* the exception a service raised in the latest step, NoError if none
    outcomes,           \* how each per-symbol iteration ended: [stage, sym, kind, val]
    reportArgs          \* the arguments of every build_report call, in order

pipeVars ==
    << pc, absent, ctx0, ctx, ctxs, symbols, i, per_symbol, skipped,
       degraded_reasons, candidates, j, decisions, pack, exc, report,
       called, lastCall, lastRaised, outcomes, reportArgs >>

\* ------------------------------------------------------------------
\* State of the DecisionCore schema and of the decision derivation
\* ------------------------------------------------------------------
VARIABLES
    op,                 \* the operation under study; idle in a pipeline run
    dcArgs,             \* keyword arguments given to DecisionCore(...)
    dcBuilt,            \* the objects DecisionCore(...) has returned
    dcError,            \* TRUE when DecisionCore(...) raised a validation error
    ohlcv_by_date,      \* date keys of ohlcv_by_date
    indicators_by_date, \* date key -> IndicatorsDaily (hh_20, ll_20)
    policy,             \* the UserPolicySnapshot (trade_plan.time_stop_days)
    decision_by_date,   \* the dicts build_decision_core_by_date returned, in call order
    ohlcv_frame,        \* the frame fetch_ohlcv_frame returned: [lead, rows]
    bucket              \* ChartLogic._daily_by_ticker[ticker]: date key -> the three records

dcVars ==
    << op, dcArgs, dcBuilt, dcError, ohlcv_by_date, indicators_by_date, policy,
       decision_by_date, ohlcv_frame, bucket >>

\* ------------------------------------------------------------------
\* State of the construction of an EngineContext
\* ------------------------------------------------------------------
VARIABLES
    ecArgs,             \* arguments: run, policy, config, degraded, notes
    ecBuilt,            \* the EngineContext returned, <<>> if none
    ecError             \* the exception the construction raised, NoError if none

ecVars == << ecArgs, ecBuilt, ecError >>

\* ------------------------------------------------------------------
\* State of the construction of an IndicatorsDaily
\* ------------------------------------------------------------------
VARIABLES
    indData,            \* the dict of raw values given to the construction
    indBuilt,           \* the IndicatorsDaily returned, <<>> if none
    indError            \* TRUE when the construction raised a validation error

indVars == << indData, indBuilt, indError >>

\* ------------------------------------------------------------------
\* State of the indicator computation over a frame
\* ------------------------------------------------------------------
VARIABLES
    close,              \* the close column of ohlcv_frame, one number per row
    ind_frame,          \* the frame compute_indicators_frame returned, <<>> if none
    ind_by_date         \* the rows build_indicators_by_date returned, <<>> if none

frVars == << close, ind_frame, ind_by_date >>

\* ------------------------------------------------------------------
\* State of an error of contract/errors.py and of with_context on it
\* ------------------------------------------------------------------
VARIABLES
    errArgs,            \* class, message and context given to the constructor
    err,                \* the error constructed, <<>> if none
    errKw,              \* the keyword arguments of with_context
    errNew,             \* the error with_context returned, <<>> if none
    errRaised           \* the exception with_context raised, "none" if none

erVars == << errArgs, err, errKw, errNew, errRaised >>

\* ------------------------------------------------------------------
\* State of a ChartLogic object
\* ------------------------------------------------------------------
VARIABLES
    daily_by_ticker,    \* _daily_by_ticker: ticker -> date key -> the three records
    tickers,            \* _tickers
    interval,           \* _interval
    is_loaded,          \* _is_loaded
    chartCall           \* the latest call on the object: its arguments and how it ended

chVars == << daily_by_ticker, tickers, interval, is_loaded, chartCall >>

\* the variables of the operations outside run and DecisionCore
restVars == << frVars, erVars, chVars >>

vars == << pipeVars, dcVars, ecVars, indVars, restVars >>

\* what an action of run leaves alone
nonPipeVars == << dcVars, ecVars, indVars, restVars >>

\* what an action on DecisionCore leaves alone
nonDcVars == << pipeVars, ecVars, indVars, restVars >>

\* what an action on EngineContext leaves alone
nonEcVars == << pipeVars, dcVars, indVars, restVars >>

\* what an action on IndicatorsDaily leaves alone
nonIndVars == << pipeVars, dcVars, ecVars, restVars >>

\* what an action on the indicator frame leaves alone
nonFrVars == << pipeVars, dcVars, ecVars, indVars, erVars, chVars >>

\* what an action on an error leaves alone
nonErVars == << pipeVars, dcVars, ecVars, indVars, frVars, chVars >>

\* what a call on a ChartLogic object leaves alone
nonChVars == << pipeVars, dcVars, ecVars, indVars, frVars, erVars >>

\* Python None, and a present value v, for an optional field
None == <<>>

Some(v) == <<v>>

\* largest price given to DecisionCore(...)
MaxPrice == 5

\* largest hh_20 / ll_20 level of an IndicatorsDaily
MaxLevel == 2

\* number of date keys
MaxDates == 2

Dates == 1..MaxDates

BuySignal == {"YES", "YES_HALF", "NO"}

OptPrice == {None} \cup {Some(v) : v \in 0..MaxPrice}

OptSize == {None} \cup {Some(v) : v \in -1..1}

OptLevel == {None} \cup {Some(v) : v \in 0..MaxLevel}

\* ll_20 of the indicator maps given to the derivation
OptLow == {None, Some(1)}

\* IndicatorsDaily, restricted to the two fields the derivation reads
IndicatorsDaily(hh, ll) == [hh_20 |-> hh, ll_20 |-> ll]

\* IndicatorsDaily(): every field None
IndicatorsDailyDefault == IndicatorsDaily(None, None)

\* number of successive build_decision_core_by_date calls on the same inputs
MaxCalls == 2

\* UserPolicySnapshot, restricted to trade_plan.time_stop_days and trade_plan.atr_n
Policies == {[time_stop_days |-> t, atr_n |-> n] : t \in {1, 40}, n \in {14, 20}}

\* UserPolicySnapshot with the defaults of TradePlanPolicy
DefaultPolicy == [time_stop_days |-> 40, atr_n |-> 14]

PolicySnapshotId_Salted(pol) ==
    <<"sha1", pol.atr_n, pol.time_stop_days, Len(decision_by_date)>>

\* sha1 of the canonical JSON dump (sorted keys) of the policy, first 12 hex
\* digits: a function of the policy's content, taken as collision-free
PolicySnapshotId(pol) == <<"sha1", pol.atr_n, pol.time_stop_days>>

DecisionCore(sig, entry, stop, t2, t3, size, loss, tsd, status, psid, warn) ==
    [ buy_signal |-> sig, entry |-> entry, stop |-> stop,
      target_2r |-> t2, target_3r |-> t3,
      position_size |-> size, max_loss |-> loss,
      time_stop_days |-> tsd, plan_score |-> 0, rank |-> 1,
      plan_args |-> status, policy_snapshot_id |-> psid, warnings |-> warn ]

\* the Field(...) constraints of DecisionCore
FieldsOK(a) ==
    /\ a.position_size = None \/ a.position_size[1] >= 0
    /\ a.max_loss = None \/ a.max_loss[1] >= 0
    /\ a.time_stop_days >= 1
    /\ a.rank >= 1
    /\ a.policy_snapshot_id # <<>>

\* DecisionCore._validate_structure: TRUE when it returns self
ValidateStructure(a) ==
    IF a.buy_signal = "NO" THEN TRUE
    ELSE /\ \A v \in {a.entry, a.stop, a.target_2r, a.target_3r, a.position_size, a.max_loss} : v # None
         /\ a.entry[1] > a.stop[1]
         /\ LET risk == a.entry[1] - a.stop[1]
            IN  /\ a.target_2r[1] >= a.entry[1] + 2 * risk
                /\ a.target_3r[1] >= a.entry[1] + 3 * risk
         /\ a.position_size[1] > 0

\* DecisionCore(**a) returns an object
DecisionCoreOK(a) == FieldsOK(a) /\ ValidateStructure(a)

BuildDecisionCoreForDay_PromotesActive(date_key, ind, pol, policy_snapshot_id) ==
    LET active == ind.hh_20 # None /\ ind.ll_20 # None /\ ind.hh_20[1] > ind.ll_20[1]
    IN  IF ~active
        THEN DecisionCore("NO", None, None, None, None, None, None,
                          pol.time_stop_days, <<date_key, "inactive">>,
                          policy_snapshot_id, <<"insufficient_indicators">>)
        ELSE DecisionCore("YES", ind.hh_20, ind.ll_20,
                          Some(ind.hh_20[1] + 2 * (ind.hh_20[1] - ind.ll_20[1])),
                          Some(ind.hh_20[1] + 3 * (ind.hh_20[1] - ind.ll_20[1])),
                          Some(1), Some(0),
                          pol.time_stop_days, <<date_key, "active">>,
                          policy_snapshot_id, <<>>)

BuildDecisionCoreForDay_ActiveOnEqual(date_key, ind, pol, policy_snapshot_id) ==
    LET active == ind.hh_20 # None /\ ind.ll_20 # None /\ ind.hh_20[1] >= ind.ll_20[1]
    IN  IF ~active
        THEN DecisionCore("NO", None, None, None, None, None, None,
                          pol.time_stop_days, <<date_key, "inactive">>,
                          policy_snapshot_id, <<"insufficient_indicators">>)
        ELSE DecisionCore("NO", ind.hh_20, ind.ll_20,
                          Some(ind.hh_20[1] + 2 * (ind.hh_20[1] - ind.ll_20[1])),
                          Some(ind.hh_20[1] + 3 * (ind.hh_20[1] - ind.ll_20[1])),
                          Some(0), Some(0),
                          pol.time_stop_days, <<date_key, "active">>,
                          policy_snapshot_id, <<>>)

\* the keyword arguments _build_decision_core_for_day gives to DecisionCore
BuildDecisionCoreForDay(date_key, ind, pol, policy_snapshot_id) ==
    LET hh_20 == ind.hh_20
        ll_20 == ind.ll_20
        active == hh_20 # None /\ ll_20 # None /\ hh_20[1] > ll_20[1]
    IN  IF ~active
        THEN DecisionCore("NO", None, None, None, None, None, None,
                          pol.time_stop_days, <<date_key, "inactive">>,
                          policy_snapshot_id, <<"insufficient_indicators">>)
        ELSE LET entry == hh_20[1]
                 stop == ll_20[1]
                 risk == entry - stop
             IN  DecisionCore("NO", Some(entry), Some(stop),
                              Some(entry + 2 * risk), Some(entry + 3 * risk),
                              Some(0), Some(0),
                              pol.time_stop_days, <<date_key, "active">>,
                              policy_snapshot_id, <<>>)

\* indicators_by_date.get(date_key, IndicatorsDaily())
IndicatorsFor(ibd, date_key) ==
    IF date_key \in DOMAIN ibd THEN ibd[date_key] ELSE IndicatorsDailyDefault

BuildDecisionCoreByDate_DefaultPolicy(dates, ibd, pol) ==
    [d \in dates |-> BuildDecisionCoreForDay(d, IndicatorsFor(ibd, d), DefaultPolicy, PolicySnapshotId(DefaultPolicy))]

\* build_decision_core_by_date: date key -> keyword arguments of its DecisionCore
BuildDecisionCoreByDate(dates, ibd, pol) ==
    [d \in dates |-> BuildDecisionCoreForDay(d, IndicatorsFor(ibd, d), pol, PolicySnapshotId(pol))]

\* ------------------------------------------------------------------
\* OHLCV frames and their date keys
\* ------------------------------------------------------------------
\* window of hh_20 = high.rolling(20).max() and ll_20 = low.rolling(20).min()
Window20 == 20

\* number of rows that follow the lead of a frame
MaxRows == 2

\* latest calendar day of those rows
MaxDay == 2

\* high and low of the bars of the lead, and of the rows that follow it
FlatBar == [high |-> 1, low |-> 1]

WideBar == [high |-> 2, low |-> 1]

\* values of the date column: a Timestamp (calendar day, time of day), NaT,
\* or a string that begins with the ten characters of an ISO date
DateCells ==
    { [ty |-> t, day |-> d, time |-> h] : t \in {"Timestamp", "str"}, d \in 1..MaxDay, h \in 0..1 }
    \cup { [ty |-> "NaT", day |-> 0, time |-> 0] }

Row(cell, bar) == [date |-> cell, high |-> bar.high, low |-> bar.low]

\* a history of k flat bars on the k calendar days before day 1
LeadRows(k) ==
    [n \in 1..k |-> Row([ty |-> "Timestamp", day |-> n - k, time |-> 0], FlatBar)]

\* the frames of the model: no history or one bar short of the window,
\* followed by up to MaxRows rows; fetch_ohlcv_frame returns no empty frame
Frames ==
    { f \in [lead : {0, Window20 - 1}, rows : SeqsUpTo({Row(c, WideBar) : c \in DateCells}, MaxRows)] :
        f.lead + Len(f.rows) > 0 }

FrameRows(f) == LeadRows(f.lead) \o f.rows

\* date.isoformat() of a calendar day: ten characters
IsoDate(d) == <<"iso", d>>

\* str(v) of a date cell, as the text of its first ten characters followed
\* by the rest
StrOf(cell) ==
    IF cell.ty = "NaT" THEN << <<"NaT", 0>> >>
    ELSE IF cell.ty = "str" /\ cell.time = 0 THEN << IsoDate(cell.day) >>
    ELSE << IsoDate(cell.day), <<"time", cell.time>> >>

\* text[:10]
FirstTen(text) == text[1]

\* frame_to_ohlcv_by_date: the date key of one row
OhlcvDateKey(cell) ==
    IF cell.ty = "Timestamp" THEN IsoDate(cell.day) ELSE FirstTen(StrOf(cell))

\* _date_key_series raises: s.dt needs a datetime column
DateKeySeriesRaises(rows) ==
    /\ rows[1].date.ty = "Timestamp"
    /\ \E n \in 1..Len(rows) : rows[n].date.ty = "str"

DateKeySeries_NoSlice(rows) ==
    [n \in 1..Len(rows) |->
        IF rows[n].date.time # 0 THEN <<"iso+time", rows[n].date.day>>
        ELSE OhlcvDateKey(rows[n].date)]

\* _date_key_series: the key of every row, decided by the type of the first
DateKeySeries(rows) ==
    IF rows[1].date.ty = "Timestamp"
    THEN [n \in 1..Len(rows) |->
            IF rows[n].date.ty = "NaT" THEN <<"NaT", 0>> ELSE IsoDate(rows[n].date.day)]
    ELSE [n \in 1..Len(rows) |-> FirstTen(StrOf(rows[n].date))]

\* the last position of key k in the key sequence keys
LastIndex(keys, k) ==
    CHOOSE n \in 1..Len(keys) : keys[n] = k /\ \A m \in (n + 1)..Len(keys) : keys[m] # k

SetMax(S) == CHOOSE x \in S : \A y \in S : y <= x

SetMin(S) == CHOOSE x \in S : \A y \in S : x <= y

\* high.rolling(20).max() at row n, NaN turned to None by _validate_indicators
RollingHigh(rows, n) ==
    IF n < Window20 THEN None
    ELSE Some(SetMax({rows[m].high : m \in (n - Window20 + 1)..n}))

\* low.rolling(20).min() at row n
RollingLow(rows, n) ==
    IF n < Window20 THEN None
    ELSE Some(SetMin({rows[m].low : m \in (n - Window20 + 1)..n}))

\* frame_to_ohlcv_by_date: a later row of the same key replaces the earlier
FrameToOhlcvByDate(rows) ==
    LET keys == [n \in 1..Len(rows) |-> OhlcvDateKey(rows[n].date)]
    IN  [k \in Range(keys) |->
            [high |-> rows[LastIndex(keys, k)].high, low |-> rows[LastIndex(keys, k)].low]]

\* build_indicators_by_date: a later row of the same key replaces the earlier
BuildIndicatorsByDate(rows) ==
    LET keys == DateKeySeries(rows)
    IN  [k \in Range(keys) |->
            IndicatorsDaily(RollingHigh(rows, LastIndex(keys, k)),
                            RollingLow(rows, LastIndex(keys, k)))]

\* the keys of ohlcv_by_date in insertion order
RECURSIVE KeyOrder(_)
KeyOrder(rows) ==
    IF rows = <<>> THEN <<>>
    ELSE LET before == KeyOrder(SubSeq(rows, 1, Len(rows) - 1))
             k == OhlcvDateKey(Last(rows).date)
         IN  IF k \in Range(before) THEN before ELSE Append(before, k)

DefaultArgs ==
    DecisionCore("NO", None, None, None, None, None, None, 1, <<>>, <<"id">>, <<>>)

\* no DecisionCore is constructed and no derivation runs
DcNoData ==
    /\ dcArgs = DefaultArgs
    /\ dcBuilt = {}
    /\ dcError = FALSE
    /\ ohlcv_by_date = {}
    /\ indicators_by_date = <<>>
    /\ policy = DefaultPolicy
    /\ decision_by_date = <<>>
    /\ ohlcv_frame = [lead |-> 0, rows |-> <<>>]
    /\ bucket = <<>>

\* The resolved config of a context, restricted to the key build_report
\* reads: {} and {"include_skipped": False}.
DefaultConfig == [include_skipped |-> <<>>]

NoSkippedConfig == [include_skipped |-> <<FALSE>>]

\* largest as-of date of a RunContext / PolicySnapshot
MaxAsof == 3

\* schemas/market.py RunContext
RunContexts ==
    { [market |-> m, asof |-> a, run_id |-> "run-1"] : m \in {"JP", "US"}, a \in 1..MaxAsof }

\* schemas/policy.py PolicySnapshot, restricted to asof
PolicySnapshots == { [asof |-> a] : a \in 1..MaxAsof }

\* keys build_engine_context adds to notes
MetaKeys == {"market", "asof", "run_id"}

\* notes given by the caller: none, or an asof entry of the caller's own
CallerNotes ==
    { [k \in MetaKeys |-> Absent],
      [k \in MetaKeys |-> IF k = "asof" THEN <<"caller">> ELSE Absent] }

\* notes.setdefault(key, value)
SetDefault(notes, key, value) ==
    IF notes[key] = Absent THEN [notes EXCEPT ![key] = <<value>>] ELSE notes

\* EngineContext(run=..., policy=..., config=..., degraded=..., notes=...):
\* the model declares field types and no validator
EngineContext(run, pol, config, degraded, notes) ==
    [run |-> run, policy |-> pol, config |-> config, degraded |-> degraded, notes |-> notes]

\* build_engine_context: the exception it raises, NoError if none
BuildEngineContextError(a) ==
    IF a.policy.asof # a.run.asof
    THEN [kind |-> "ConfigurationError", msg |-> <<"PolicySnapshot.asof must match RunContext.asof.">>,
          raisedBy |-> "build_engine_context", sym |-> "none", causeKind |-> "none"]
    ELSE NoError

\* build_engine_context: the context it returns
BuildEngineContext(a) ==
    LET n1 == SetDefault(a.notes, "market", a.run.market)
        n2 == SetDefault(n1, "asof", a.run.asof)
        n3 == SetDefault(n2, "run_id", a.run.run_id)
    IN  EngineContext(a.run, a.policy, a.config, a.degraded, n3)

\* no EngineContext is constructed
EcIdle ==
    /\ ecArgs = [run |-> [market |-> "JP", asof |-> 1, run_id |-> "run-1"],
                 policy |-> [asof |-> 1], config |-> DefaultConfig, degraded |-> FALSE,
                 notes |-> [k \in MetaKeys |-> Absent]]
    /\ ecBuilt = <<>>
    /\ ecError = NoError

\* largest finite number among the raw indicator values
MaxRaw == 1

\* IndicatorsDaily fields of the model and their annotated types
FieldKind ==
    [ hh_20 |-> "FiniteFloat", ll_20 |-> "FiniteFloat", atr_14 |-> "NonNegativeFloat" ]

\* A Python value: its type, whether it is a number, NaN or an infinity,
\* and the number when it is finite.
PyNone == [ty |-> "NoneType", cls |-> "none", num |-> 0]

PyFloat(cls, num) == [ty |-> "float", cls |-> cls, num |-> num]

PyInt(num) == [ty |-> "int", cls |-> "finite", num |-> num]

RawValues ==
    {PyNone, PyInt(1), PyFloat("nan", 0), PyFloat("inf", 0), PyFloat("-inf", 0)}
    \cup {PyFloat("finite", n) : n \in -1..MaxRaw}

\* math.isfinite(v)
IsFinite(v) == v.cls = "finite"

\* _validate_indicators, step 1: None stays, a non-finite float becomes None
Cleaned(data) ==
    [k \in DOMAIN data |->
        IF data[k] = PyNone THEN PyNone
        ELSE IF data[k].ty = "float" /\ ~IsFinite(data[k]) THEN PyNone
        ELSE data[k]]

\* v >= 0.0 in IEEE arithmetic: false for NaN
GeZero(v) == v.cls = "inf" \/ (v.cls = "finite" /\ v.num >= 0)

\* pydantic accepts the value for a field of that annotated type:
\* FiniteFloat is float with a description only, NonNegativeFloat adds ge=0.0
FieldAccepts(kind, v) ==
    \/ v = PyNone
    \/ kind = "FiniteFloat"
    \/ kind = "NonNegativeFloat" /\ GeZero(v)

\* IndicatorsDaily.model_validate(data) returns an object
IndicatorsDailyOK(data) == \A k \in DOMAIN data : FieldAccepts(FieldKind[k], data[k])

\* the object it returns: every number is held as a float
IndicatorsDailyObject(data) ==
    [k \in DOMAIN data |-> IF data[k] = PyNone THEN PyNone ELSE PyFloat(data[k].cls, data[k].num)]

\* no IndicatorsDaily is constructed
IndIdle ==
    /\ indData = [k \in DOMAIN FieldKind |-> PyNone]
    /\ indBuilt = <<>>
    /\ indError = FALSE

\* no indicator frame is computed
FrIdle ==
    /\ close = <<>>
    /\ ind_frame = <<>>
    /\ ind_by_date = <<>>

\* no error of contract/errors.py is constructed
ErIdle ==
    /\ errArgs = [kind |-> "contract.MarketDecisionEngineError", message |-> "m", context |-> <<>>]
    /\ err = <<>>
    /\ errKw = <<>>
    /\ errNew = <<>>
    /\ errRaised = "none"

NoChartCall == [op |-> "none"]

\* ChartLogic.__init__: the object right after construction
ChartLogicNew ==
    /\ daily_by_ticker = <<>>
    /\ tickers = <<>>
    /\ interval = "1d"
    /\ is_loaded = FALSE
    /\ chartCall = NoChartCall

\* none of the operations outside run and DecisionCore is under study
RestIdle == FrIdle /\ ErIdle /\ ChartLogicNew

\* the decision variables while a pipeline run is studied
DcIdle ==
    /\ op = "idle"
    /\ DcNoData

Call(svc, sym, c) == [svc |-> svc, sym |-> sym, ctx |-> c]

NoCall == [svc |-> "none", sym |-> "none", ctx |-> <<>>]

\* The taxonomy class an exception of class k counts as: SkipSymbol or
\* DegradedError when it is an instance of one of them, else its own class.
Family(k) ==
    IF IsInstance(k, "SkipSymbol") THEN "SkipSymbol"
    ELSE IF IsInstance(k, "DegradedError") THEN "DegradedError"
    ELSE k

\* one per-symbol iteration: the family of the exception its service raised
\* ("ok" if none) and the value decide_for_symbol returned (<<>> if none)
Outcome(stage, sym, kind, val) ==
    [stage |-> stage, sym |-> sym, kind |-> IF kind = "ok" THEN "ok" ELSE Family(kind), val |-> val]

EmptyNotes == [k \in NoteKeys |-> Absent]

\* Contexts run is called with: a fresh one under the default config, and one
\* the caller already marked degraded whose config leaves the skipped list out.
InitialContexts ==
    { [degraded |-> FALSE, notes |-> EmptyNotes, config |-> DefaultConfig],
      [degraded |-> TRUE,
       notes |-> [EmptyNotes EXCEPT !["degraded_reasons"] = << << <<"preexisting">> >> >>],
       config |-> NoSkippedConfig] }

Init ==
    /\ pc = "require"
    /\ absent \in SUBSET (Range(RequiredServices) \cup OptionalServices)
    /\ ctx0 \in InitialContexts
    /\ ctx = ctx0
    /\ ctxs = <<ctx0>>
    /\ symbols = <<>>
    /\ i = 1
    /\ per_symbol = <<>>
    /\ skipped = <<>>
    /\ degraded_reasons = <<>>
    /\ candidates = <<>>
    /\ j = 1
    /\ decisions = <<>>
    /\ pack = <<>>
    /\ exc = NoError
    /\ report = <<>>
    /\ called = {}
    /\ lastCall = NoCall
    /\ lastRaised = NoError
    /\ outcomes = <<>>
    /\ reportArgs = <<>>
    /\ DcIdle
    /\ EcIdle
    /\ IndIdle
    /\ RestIdle

Branch_CatchAllDegraded(k) ==
    IF IsInstance(k, "SkipSymbol") THEN "skip"
    ELSE IF IsInstance(k, "MarketDecisionEngineError") THEN "degraded"
    ELSE "wrap"

Branch_SkipAsDegraded(k) ==
    IF IsInstance(k, "SkipSymbol") \/ IsInstance(k, "DegradedError") THEN "degraded"
    ELSE IF IsInstance(k, "MarketDecisionEngineError") THEN "reraise"
    ELSE "wrap"

\* The except chain of the two per-symbol loops.
Branch(k) ==
    IF IsInstance(k, "SkipSymbol") THEN "skip"
    ELSE IF IsInstance(k, "DegradedError") THEN "degraded"
    ELSE IF IsInstance(k, "MarketDecisionEngineError") THEN "reraise"
    ELSE "wrap"

PutFeatures_NewestFirst(ps, sym) ==
    IF sym \in Range(ps) THEN ps ELSE <<sym>> \o ps

\* per_symbol[sym] = {...}: a new key goes last, an existing key keeps its place
PutFeatures(ps, sym) ==
    IF sym \in Range(ps) THEN ps ELSE Append(ps, sym)

MarkSkipped_WholeBatch(skp, sym) == skp \o symbols

MarkSkipped_Twice(skp, sym) == skp \o <<sym, sym>>

\* skipped.append(sym)
MarkSkipped(skp, sym) == Append(skp, sym)

Collect_KeepLast(decs, d) == <<d>>

\* decisions.append(decision)
Collect(decs, d) == Append(decs, d)

Require_OnFirstUse ==
    /\ pc = "require"
    /\ pc' = "universe"
    /\ exc' = exc
    /\ lastRaised' = NoError
    /\ UNCHANGED nonPipeVars
    /\ UNCHANGED << absent, ctx0, ctx, ctxs, symbols, i, per_symbol, skipped,
                    degraded_reasons, candidates, j, decisions, pack, report,
                    called, lastCall, outcomes, reportArgs >>

\* _require over the six required services, in the order of run
Require ==
    /\ pc = "require"
    /\ LET missing == {k \in 1..Len(RequiredServices) : RequiredServices[k] \in absent}
           first == CHOOSE k \in missing : \A m \in missing : k <= m
       IN  IF missing # {}
           THEN /\ exc' = RunError("ContractViolation", <<"Missing required service", RequiredServices[first]>>)
                /\ pc' = "raised"
           ELSE /\ pc' = "universe"
                /\ exc' = exc
    /\ lastRaised' = NoError
    /\ UNCHANGED nonPipeVars
    /\ UNCHANGED << absent, ctx0, ctx, ctxs, symbols, i, per_symbol, skipped,
                    degraded_reasons, candidates, j, decisions, pack, report,
                    called, lastCall, outcomes, reportArgs >>

\* exceptions of the services run calls outside a try block: no handler
\* reads their class, so one class of the taxonomy and one outside it stand
\* for all
RawErrors == {"FatalError", "ValueError"}

\* a service outside the try blocks raises: the exception leaves run as it is
RaiseRaw(e) ==
    /\ lastRaised' = e
    /\ exc' = e
    /\ pc' = "raised"

\* 1) Universe
BuildUniverse ==
    /\ pc = "universe"
    /\ called' = called \cup {"build_universe"}
    /\ lastCall' = Call("build_universe", "none", ctx)
    /\ \/ \E u \in SeqsUpTo(Symbols, MaxUniverse) :
            /\ symbols' = u
            /\ lastRaised' = NoError
            /\ IF u = <<>>
               THEN /\ exc' = RunError("FatalError", "Universe is empty.")
                    /\ pc' = "raised"
                    /\ UNCHANGED << ctx, ctxs >>
               ELSE /\ ctx' = CtxWithNote(ctx, "universe_size", Len(u))
                    /\ ctxs' = Append(ctxs, ctx')
                    /\ pc' = "stage2"
                    /\ exc' = exc
       \/ \E k \in RawErrors :
            /\ RaiseRaw(ServiceError(k, "build_universe", "none"))
            /\ UNCHANGED << symbols, ctx, ctxs >>
    /\ UNCHANGED nonPipeVars
    /\ UNCHANGED << absent, ctx0, i, per_symbol, skipped, degraded_reasons,
                    candidates, j, decisions, pack, report, outcomes, reportArgs >>

\* 2) one iteration of the per-symbol loop: load -> preprocess -> daily features
FeatureStage ==
    /\ pc = "stage2"
    /\ i <= Len(symbols)
    /\ LET sym == symbols[i]
       IN  \/ /\ called' = called \cup Range(FeatureServices)
              /\ lastCall' = Call(Last(FeatureServices), sym, ctx)
              /\ lastRaised' = NoError
              /\ outcomes' = Append(outcomes, Outcome(2, sym, "ok", <<>>))
              /\ per_symbol' = PutFeatures(per_symbol, sym)
              /\ i' = i + 1
              /\ UNCHANGED << pc, skipped, degraded_reasons, exc >>
           \/ \E n \in 1..Len(FeatureServices), k \in RaisedKinds :
                LET e == ServiceError(k, FeatureServices[n], sym)
                    b == Branch(k)
                IN  /\ called' = called \cup {FeatureServices[m] : m \in 1..n}
                    /\ lastCall' = Call(FeatureServices[n], sym, ctx)
                    /\ lastRaised' = e
                    /\ outcomes' = Append(outcomes, Outcome(2, sym, k, <<>>))
                    /\ per_symbol' = per_symbol
                    /\ CASE b = "skip" ->
                              /\ skipped' = MarkSkipped(skipped, sym)
                              /\ i' = i + 1
                              /\ UNCHANGED << pc, degraded_reasons, exc >>
                         [] b = "degraded" ->
                              /\ degraded_reasons' = Append(degraded_reasons, e.msg)
                              /\ skipped' = MarkSkipped(skipped, sym)
                              /\ i' = i + 1
                              /\ UNCHANGED << pc, exc >>
                         [] b = "reraise" ->
                              /\ exc' = e
                              /\ pc' = "raised"
                              /\ UNCHANGED << i, skipped, degraded_reasons >>
                         [] b = "wrap" ->
                              /\ exc' = Promote("Unhandled exception in feature stage", e)
                              /\ pc' = "raised"
                              /\ UNCHANGED << i, skipped, degraded_reasons >>
    /\ UNCHANGED nonPipeVars
    /\ UNCHANGED << absent, ctx0, ctx, ctxs, symbols, candidates, j, decisions,
                    pack, report, reportArgs >>

\* after the stage-2 loop: degraded marking, notes, survivor check
AfterFeatureStage ==
    /\ pc = "stage2"
    /\ i > Len(symbols)
    /\ LET c1 == IF degraded_reasons # <<>>
                 THEN CtxMarkDegraded(ctx, <<"feature_stage_degraded">>)
                 ELSE ctx
           c2 == CtxWithNote(c1, "skipped_symbols", SkippedRef)
           c3 == CtxWithNote(c2, "feature_ready_symbols", Len(per_symbol))
       IN  /\ ctx' = c3
           /\ ctxs' = ctxs \o (IF degraded_reasons # <<>> THEN <<c1>> ELSE <<>>) \o <<c2, c3>>
    /\ IF per_symbol = <<>>
       THEN /\ exc' = RunError("FatalError", "No symbols available after preprocessing/feature generation.")
            /\ pc' = "raised"
       ELSE /\ pc' = "select"
            /\ exc' = exc
    /\ lastRaised' = NoError
    /\ UNCHANGED nonPipeVars
    /\ UNCHANGED << absent, ctx0, symbols, i, per_symbol, skipped, degraded_reasons,
                    candidates, j, decisions, pack, report, called, lastCall,
                    outcomes, reportArgs >>

\* 3a) select_candidates, or every surviving symbol when it is None
SelectCandidates ==
    /\ pc = "select"
    /\ IF "select_candidates" \in absent
       THEN /\ candidates' = per_symbol
            /\ pc' = "rank"
            /\ lastRaised' = NoError
            /\ UNCHANGED << called, lastCall, exc >>
       ELSE /\ called' = called \cup {"select_candidates"}
            /\ lastCall' = Call("select_candidates", "none", ctx)
            /\ \/ \E c \in SeqsUpTo(Symbols, MaxCand) :
                    /\ candidates' = c
                    /\ pc' = "rank"
                    /\ lastRaised' = NoError
                    /\ exc' = exc
               \/ \E k \in RawErrors :
                    /\ RaiseRaw(ServiceError(k, "select_candidates", "none"))
                    /\ candidates' = candidates
    /\ UNCHANGED nonPipeVars
    /\ UNCHANGED << absent, ctx0, ctx, ctxs, symbols, i, per_symbol, skipped,
                    degraded_reasons, j, decisions, pack, report, outcomes, reportArgs >>

CheckCandidates_NoEmptyCheck(c) ==
    /\ ctx' = CtxWithNote(ctx, "candidate_size", Len(c))
    /\ ctxs' = Append(ctxs, ctx')
    /\ pc' = "stage4"
    /\ exc' = exc

\* the empty check and the candidate_size note that follow ranking
CheckCandidates(c) ==
    IF c = <<>>
    THEN /\ exc' = RunError("FatalError", "Candidate list is empty.")
         /\ pc' = "raised"
         /\ UNCHANGED << ctx, ctxs >>
    ELSE /\ ctx' = CtxWithNote(ctx, "candidate_size", Len(c))
         /\ ctxs' = Append(ctxs, ctx')
         /\ pc' = "stage4"
         /\ exc' = exc

\* 3b) rank_candidates when supplied, then the empty-candidate check
RankCandidates ==
    /\ pc = "rank"
    /\ IF "rank_candidates" \in absent
       THEN /\ candidates' = candidates
            /\ CheckCandidates(candidates)
            /\ lastRaised' = NoError
            /\ UNCHANGED << called, lastCall >>
       ELSE /\ called' = called \cup {"rank_candidates"}
            /\ lastCall' = Call("rank_candidates", "none", ctx)
            /\ \/ \E c \in SeqsUpTo(Symbols, MaxCand) :
                    /\ candidates' = c
                    /\ CheckCandidates(c)
                    /\ lastRaised' = NoError
               \/ \E k \in RawErrors :
                    /\ RaiseRaw(ServiceError(k, "rank_candidates", "none"))
                    /\ UNCHANGED << candidates, ctx, ctxs >>
    /\ UNCHANGED nonPipeVars
    /\ UNCHANGED << absent, ctx0, symbols, i, per_symbol, skipped, degraded_reasons,
                    j, decisions, pack, report, outcomes, reportArgs >>

\* ExecutionNumbers with stop 1 < entry 2 < target 3 and the risk figures
\* that go with quantity q
Execution(q) ==
    [ entry_price |-> 2, stop_price |-> 1, target_price |-> 3, quantity |-> q,
      risk_amount |-> q, reward_amount |-> q, r_multiple |-> IF q = 0 THEN 0 ELSE 1 ]

\* schemas.decision.ExecutionNumbers: field bounds and _validate_price_order
ValidatePriceOrder(e) ==
    /\ e.entry_price > 0 /\ e.stop_price > 0 /\ e.target_price > 0
    /\ e.quantity >= 0 /\ e.risk_amount >= 0 /\ e.reward_amount >= 0 /\ e.r_multiple >= 0
    /\ e.stop_price < e.entry_price /\ e.entry_price < e.target_price
    /\ IF e.quantity = 0
       THEN e.risk_amount = 0 /\ e.reward_amount = 0 /\ e.r_multiple = 0
       ELSE e.risk_amount > 0 /\ e.reward_amount = e.r_multiple * e.risk_amount

\* schemas.decision.DecisionCore._validate_signal_quantity_consistency
ValidateSignalQuantityConsistency(d) ==
    /\ ~(d.buy_signal = "NO" /\ d.execution.quantity # 0)
    /\ ~(d.buy_signal \in {"YES", "YES_HALF"} /\ d.execution.quantity <= 0)

\* what validation of the fields of d as a DecisionCore decides
Validates(d) ==
    /\ d.buy_signal \in {"YES", "YES_HALF", "NO"}
    /\ ValidatePriceOrder(d.execution)
    /\ ValidateSignalQuantityConsistency(d)

\* A value decide_for_symbol returned: instance says whether it is an object
\* of class DecisionCore; the other fields are what it holds.
DecisionValue(sym, inst, signal, q) ==
    [symbol |-> sym, instance |-> inst, buy_signal |-> signal, execution |-> Execution(q)]

\* values decide_for_symbol returns for sym: a DecisionCore object built
\* through validation, and NO with quantity 1, which for A is an object
\* built with model_construct (no validator ran) and for B a mapping
DecisionValues(sym) ==
    { DecisionValue(sym, TRUE, "NO", 0),
      DecisionValue(sym, sym = "A", "NO", 1) }

\* validation of one element of decisions: list[DecisionCore]; the model
\* config sets only frozen, so an instance of the class is taken as it is
\* and anything else is validated field by field
PackAccepts(d) == d.instance \/ Validates(d)

\* the element DecisionPack holds for an accepted input
PackElement(d) == [d EXCEPT !.instance = TRUE]

MissingCandidate_Skips(sym) ==
    /\ skipped' = Append(skipped, sym)
    /\ j' = j + 1
    /\ lastRaised' = NoError
    /\ UNCHANGED << pc, exc, ctx, ctxs, decisions, called, lastCall, outcomes >>

\* a candidate that is no key of per_symbol: raise ContractViolation
MissingCandidate(sym) ==
    /\ exc' = RunError("ContractViolation", "Candidate symbol not found in per_symbol feature map.")
    /\ pc' = "raised"
    /\ lastRaised' = NoError
    /\ UNCHANGED << ctx, ctxs, skipped, j, decisions, called, lastCall, outcomes >>

\* 4) one iteration of the decision loop
DecisionStage ==
    /\ pc = "stage4"
    /\ j <= Len(candidates)
    /\ LET sym == candidates[j]
       IN  IF sym \notin Range(per_symbol)
           THEN MissingCandidate(sym)
           ELSE /\ called' = called \cup {"decide_for_symbol"}
                /\ lastCall' = Call("decide_for_symbol", sym, ctx)
                /\ \/ \E d \in DecisionValues(sym) :
                        /\ decisions' = Collect(decisions, d)
                        /\ outcomes' = Append(outcomes, Outcome(4, sym, "ok", <<d>>))
                        /\ lastRaised' = NoError
                        /\ j' = j + 1
                        /\ UNCHANGED << pc, ctx, ctxs, skipped, exc >>
                   \/ \E k \in RaisedKinds :
                        LET e == ServiceError(k, "decide_for_symbol", sym)
                            b == Branch(k)
                        IN  /\ lastRaised' = e
                            /\ outcomes' = Append(outcomes, Outcome(4, sym, k, <<>>))
                            /\ decisions' = decisions
                            /\ CASE b = "skip" ->
                                      /\ skipped' = MarkSkipped(skipped, sym)
                                      /\ j' = j + 1
                                      /\ UNCHANGED << pc, ctx, ctxs, exc >>
                                 [] b = "degraded" ->
                                      /\ ctx' = CtxMarkDegraded(ctx, <<"decision_stage_degraded">> \o e.msg)
                                      /\ ctxs' = Append(ctxs, ctx')
                                      /\ skipped' = MarkSkipped(skipped, sym)
                                      /\ j' = j + 1
                                      /\ UNCHANGED << pc, exc >>
                                 [] b = "reraise" ->
                                      /\ exc' = e
                                      /\ pc' = "raised"
                                      /\ UNCHANGED << ctx, ctxs, skipped, j >>
                                 [] b = "wrap" ->
                                      /\ exc' = Promote("Unhandled exception in decision stage", e)
                                      /\ pc' = "raised"
                                      /\ UNCHANGED << ctx, ctxs, skipped, j >>
    /\ UNCHANGED nonPipeVars
    /\ UNCHANGED << absent, ctx0, symbols, i, per_symbol, degraded_reasons,
                    candidates, pack, report, reportArgs >>

\* 5a) DecisionPack(...): pydantic validates every element of decisions
AssemblePack ==
    /\ pc = "stage4"
    /\ j > Len(candidates)
    /\ IF \E n \in 1..Len(decisions) : ~PackAccepts(decisions[n])
       THEN /\ exc' = RunError("ValidationError", "DecisionPack")
            /\ pc' = "raised"
            /\ pack' = pack
       ELSE /\ pack' = << [decisions |-> [n \in 1..Len(decisions) |-> PackElement(decisions[n])]] >>
            /\ pc' = "report"
            /\ exc' = exc
    /\ lastRaised' = NoError
    /\ UNCHANGED nonPipeVars
    /\ UNCHANGED << absent, ctx0, ctx, ctxs, symbols, i, per_symbol, skipped,
                    degraded_reasons, candidates, j, decisions, report, called,
                    lastCall, outcomes, reportArgs >>

\* r.strip() of a reason text: the texts of the model are token tuples, and
\* strip removes the blank tokens at both ends
RECURSIVE Strip(_)
Strip(r) ==
    IF r = <<>> THEN r
    ELSE IF Head(r) = " " THEN Strip(Tail(r))
    ELSE IF Last(r) = " " THEN Strip(SubSeq(r, 1, Len(r) - 1))
    ELSE r

\* reports/json_report.py _build_warnings
BuildWarnings(c) ==
    LET reasons == Reasons(c)
        kept == SelectSeq(reasons, LAMBDA r : Strip(r) # <<>>)
        warnings == [n \in 1..Len(kept) |-> Strip(kept[n])]
    IN  IF warnings = <<>> THEN << <<"Pipeline ran in degraded mode.">> >> ELSE warnings

\* reports/json_report.py _serialize_decision_pack; the note skipped_symbols
\* holds the list object skipped, shown here with its content skp
SerializeDecisionPack(p, skp, c) ==
    LET include_skipped ==
            IF c.config.include_skipped = <<>> THEN TRUE ELSE c.config.include_skipped[1]
    IN  [ decisions |-> p.decisions,
          skipped_symbols |-> IF include_skipped THEN <<skp>> ELSE <<>>,
          degraded |-> c.degraded,
          notes |-> [k \in NoteKeys |->
                        IF k = "skipped_symbols" /\ c.notes[k] # Absent THEN <<skp>> ELSE c.notes[k]] ]

\* reports/json_report.py build_report
JsonReport(c, p, skp) ==
    [ decision_pack |-> SerializeDecisionPack(p, skp, c),
      short_summary |-> IF c.degraded THEN << [warnings |-> BuildWarnings(c)] >> ELSE <<>> ]

\* 5b) build_report(ctx, pack, skipped) and return
BuildReport ==
    /\ pc = "report"
    /\ called' = called \cup {"build_report"}
    /\ lastCall' = Call("build_report", "none", ctx)
    /\ reportArgs' = Append(reportArgs, [ctx |-> ctx, pack |-> pack[1], skipped |-> skipped])
    /\ \/ /\ report' = << JsonReport(ctx, pack[1], skipped) >>
          /\ pc' = "done"
          /\ lastRaised' = NoError
          /\ exc' = exc
       \/ \E k \in RawErrors :
            /\ RaiseRaw(ServiceError(k, "build_report", "none"))
            /\ report' = report
    /\ UNCHANGED nonPipeVars
    /\ UNCHANGED << absent, ctx0, ctx, ctxs, symbols, i, per_symbol, skipped,
                    degraded_reasons, candidates, j, decisions, pack, outcomes >>

Next ==
    \/ Require
    \/ BuildUniverse
    \/ FeatureStage
    \/ AfterFeatureStage
    \/ SelectCandidates
    \/ RankCandidates
    \/ DecisionStage
    \/ AssemblePack
    \/ BuildReport

Spec == Init /\ [][Next]_vars

\* ------------------------------------------------------------------
\* DecisionCore construction and decision derivation
\* ------------------------------------------------------------------
\* the pipeline variables while the decision schema is studied
PipeIdle ==
    /\ pc = "idle"
    /\ absent = {}
    /\ ctx0 = [degraded |-> FALSE, notes |-> EmptyNotes, config |-> DefaultConfig]
    /\ ctx = ctx0
    /\ ctxs = <<ctx0>>
    /\ symbols = <<>>
    /\ i = 1
    /\ per_symbol = <<>>
    /\ skipped = <<>>
    /\ degraded_reasons = <<>>
    /\ candidates = <<>>
    /\ j = 1
    /\ decisions = <<>>
    /\ pack = <<>>
    /\ exc = NoError
    /\ report = <<>>
    /\ called = {}
    /\ lastCall = NoCall
    /\ lastRaised = NoError
    /\ outcomes = <<>>
    /\ reportArgs = <<>>

InitDecision ==
    /\ PipeIdle
    /\ EcIdle
    /\ IndIdle
    /\ RestIdle
    /\ dcBuilt = {}
    /\ dcError = FALSE
    /\ decision_by_date = <<>>
    /\ bucket = <<>>
    /\ \/ /\ op = "construct"
          /\ \E sig \in BuySignal, entry \in OptPrice, stop \in OptPrice,
                t2 \in OptPrice, t3 \in OptPrice, size \in OptSize, loss \in OptSize :
                dcArgs = DecisionCore(sig, entry, stop, t2, t3, size, loss, 1, <<>>, <<"id">>, <<>>)
          /\ ohlcv_by_date = {}
          /\ indicators_by_date = <<>>
          /\ policy = DefaultPolicy
          /\ ohlcv_frame = [lead |-> 0, rows |-> <<>>]
       \/ /\ op = "load_charts"
          /\ dcArgs = DefaultArgs
          /\ ohlcv_by_date = {}
          /\ indicators_by_date = <<>>
          /\ policy = DefaultPolicy
          /\ ohlcv_frame \in Frames
       \/ /\ op = "derive"
          /\ dcArgs = DefaultArgs
          /\ ohlcv_frame = [lead |-> 0, rows |-> <<>>]
          /\ ohlcv_by_date \in SUBSET Dates
          /\ \E D \in SUBSET Dates :
                indicators_by_date \in [D -> {IndicatorsDaily(hh, ll) : hh \in OptLevel, ll \in OptLow}]
          /\ policy \in Policies

\* DecisionCore(**dcArgs), built directly through the schema
ConstructDecisionCore ==
    /\ op = "construct"
    /\ dcBuilt = {}
    /\ ~dcError
    /\ IF DecisionCoreOK(dcArgs)
       THEN /\ dcBuilt' = {dcArgs}
            /\ dcError' = dcError
       ELSE /\ dcError' = TRUE
            /\ dcBuilt' = dcBuilt
    /\ UNCHANGED << op, dcArgs, ohlcv_by_date, indicators_by_date, policy, decision_by_date,
                    ohlcv_frame, bucket >>
    /\ UNCHANGED nonDcVars

\* build_decision_core_by_date(ohlcv_by_date, indicators_by_date, policy)
DeriveDecisions ==
    /\ op = "derive"
    /\ Len(decision_by_date) < MaxCalls
    /\ ~dcError
    /\ LET out == BuildDecisionCoreByDate(ohlcv_by_date, indicators_by_date, policy)
       IN  IF \A d \in DOMAIN out : DecisionCoreOK(out[d])
           THEN /\ decision_by_date' = Append(decision_by_date, out)
                /\ dcBuilt' = dcBuilt \cup {out[d] : d \in DOMAIN out}
                /\ dcError' = dcError
           ELSE /\ dcError' = TRUE
                /\ UNCHANGED << decision_by_date, dcBuilt >>
    /\ UNCHANGED << op, dcArgs, ohlcv_by_date, indicators_by_date, policy, ohlcv_frame, bucket >>
    /\ UNCHANGED nonDcVars

\* ChartLogic.load_charts(ticker): the three maps of the one ticker and the
\* records stored under it
LoadCharts ==
    /\ op = "load_charts"
    /\ decision_by_date = <<>>
    /\ ~dcError
    /\ LET rows == FrameRows(ohlcv_frame)
       IN  IF DateKeySeriesRaises(rows)
           THEN /\ dcError' = TRUE
                /\ UNCHANGED << ohlcv_by_date, indicators_by_date, decision_by_date, dcBuilt, bucket >>
           ELSE LET obd == FrameToOhlcvByDate(rows)
                    ibd == BuildIndicatorsByDate(rows)
                    out == BuildDecisionCoreByDate(DOMAIN obd, ibd, policy)
                    order == KeyOrder(rows)
                    missing == {n \in 1..Len(order) : order[n] \notin DOMAIN ibd}
                    stored == IF missing = {} THEN Range(order)
                              ELSE {order[n] : n \in 1..(SetMin(missing) - 1)}
                IN  /\ ohlcv_by_date' = DOMAIN obd
                    /\ indicators_by_date' = ibd
                    /\ IF \A d \in DOMAIN out : DecisionCoreOK(out[d])
                       THEN /\ decision_by_date' = <<out>>
                            /\ dcBuilt' = {out[d] : d \in DOMAIN out}
                            /\ bucket' = [k \in stored |->
                                              [ohlcv |-> obd[k], indicators |-> ibd[k],
                                               decision_core |-> out[k]]]
                            /\ dcError' = (missing # {})
                       ELSE /\ dcError' = TRUE
                            /\ UNCHANGED << decision_by_date, dcBuilt, bucket >>
    /\ UNCHANGED << op, dcArgs, policy, ohlcv_frame >>
    /\ UNCHANGED nonDcVars

NextDecision ==
    \/ ConstructDecisionCore
    \/ DeriveDecisions
    \/ LoadCharts

SpecDecision == InitDecision /\ [][NextDecision]_vars

\* ------------------------------------------------------------------
\* Construction of the execution context
\* ------------------------------------------------------------------
InitContext ==
    /\ PipeIdle
    /\ DcNoData
    /\ IndIdle
    /\ RestIdle
    /\ op \in {"build_engine_context", "EngineContext"}
    /\ ecArgs \in [run : RunContexts, policy : PolicySnapshots, config : {DefaultConfig},
                    degraded : BOOLEAN, notes : CallerNotes]
    /\ ecBuilt = <<>>
    /\ ecError = NoError

\* build_engine_context(run, policy, degraded=..., notes=...)
CallBuildEngineContext ==
    /\ op = "build_engine_context"
    /\ ecBuilt = <<>>
    /\ ecError = NoError
    /\ LET e == BuildEngineContextError(ecArgs)
       IN  IF e # NoError
           THEN /\ ecError' = e
                /\ ecBuilt' = ecBuilt
           ELSE /\ ecBuilt' = << BuildEngineContext(ecArgs) >>
                /\ ecError' = ecError
    /\ UNCHANGED ecArgs
    /\ UNCHANGED nonEcVars

\* EngineContext(run=run, policy=policy, degraded=..., notes=...)
ConstructEngineContext ==
    /\ op = "EngineContext"
    /\ ecBuilt = <<>>
    /\ ecError = NoError
    /\ ecBuilt' = << EngineContext(ecArgs.run, ecArgs.policy, ecArgs.config, ecArgs.degraded, ecArgs.notes) >>
    /\ UNCHANGED << ecArgs, ecError >>
    /\ UNCHANGED nonEcVars

NextContext ==
    \/ CallBuildEngineContext
    \/ ConstructEngineContext

SpecContext == InitContext /\ [][NextContext]_vars

\* ------------------------------------------------------------------
\* Construction of an IndicatorsDaily
\* ------------------------------------------------------------------
InitIndicators ==
    /\ PipeIdle
    /\ DcNoData
    /\ EcIdle
    /\ RestIdle
    /\ op \in {"_validate_indicators", "IndicatorsDaily"}
    /\ indData \in [DOMAIN FieldKind -> RawValues]
    /\ indBuilt = <<>>
    /\ indError = FALSE

\* _validate_indicators(data), as build_indicators_by_date calls it
ValidateIndicators ==
    /\ op = "_validate_indicators"
    /\ indBuilt = <<>>
    /\ ~indError
    /\ LET cleaned == Cleaned(indData)
       IN  IF IndicatorsDailyOK(cleaned)
           THEN /\ indBuilt' = << IndicatorsDailyObject(cleaned) >>
                /\ indError' = indError
           ELSE /\ indError' = TRUE
                /\ indBuilt' = indBuilt
    /\ UNCHANGED indData
    /\ UNCHANGED nonIndVars

\* IndicatorsDaily(**data), built directly through the schema
ConstructIndicatorsDaily ==
    /\ op = "IndicatorsDaily"
    /\ indBuilt = <<>>
    /\ ~indError
    /\ IF IndicatorsDailyOK(indData)
       THEN /\ indBuilt' = << IndicatorsDailyObject(indData) >>
            /\ indError' = indError
       ELSE /\ indError' = TRUE
            /\ indBuilt' = indBuilt
    /\ UNCHANGED indData
    /\ UNCHANGED nonIndVars

NextIndicators ==
    \/ ValidateIndicators
    \/ ConstructIndicatorsDaily

SpecIndicators == InitIndicators /\ [][NextIndicators]_vars


\* ------------------------------------------------------------------
\* compute_indicators_frame and build_indicators_by_date over the close
\* column of a frame with ascending, distinct dates
\* ------------------------------------------------------------------
\* longest lead of regular closes, longest free tail, largest free close
MaxLead == 20

MaxTail == 2

MaxClose == 2

\* the closes of a lead of k rows: constant, strictly increasing or
\* strictly decreasing, every close positive
LeadCloses(shape, k) ==
    [t \in 1..k |->
        CASE shape = "flat" -> 1
          [] shape = "rising" -> t
          [] OTHER -> k + 1 - t]

\* the close columns of the frames fetch_ohlcv_frame returns (never empty)
CloseSeries ==
    { LeadCloses(shape, k) \o tail :
        shape \in {"flat", "rising", "falling"}, k \in 0..MaxLead,
        tail \in SeqsUpTo(1..MaxClose, MaxTail) } \ { <<>> }

\* float values of a column: NaN, a quotient n / d of two integers, and a
\* number that is a function of the rows it was computed from
NaN == PyFloat("nan", <<0, 1>>)

Quot(n, d) == PyFloat("finite", <<n, d>>)

ValueOf(name, rows) == PyFloat("finite", <<name, rows>>)

RECURSIVE SumSeq(_)
SumSeq(s) == IF s = <<>> THEN 0 ELSE s[1] + SumSeq(Tail(s))

\* the last n values of the column up to row t
WindowAt(col, n, t) == SubSeq(col, t - n + 1, t)

\* a / b in IEEE arithmetic for integers a and b >= 0
FloatDiv(a, b) ==
    IF b # 0 THEN Quot(a, b)
    ELSE IF a = 0 THEN NaN
    ELSE IF a > 0 THEN PyFloat("inf", <<0, 1>>)
    ELSE PyFloat("-inf", <<0, 1>>)

\* close.pct_change(n): NaN on the first n rows
PctChange(col, n, t) ==
    IF t <= n THEN NaN ELSE FloatDiv(col[t] - col[t - n], col[t - n])

\* col.rolling(n).mean(): NaN until n observations are in the window
RollingMean(col, n, t) ==
    IF t < n THEN NaN ELSE Quot(SumSeq(WindowAt(col, n, t)), n)

\* col.ewm(span, adjust=False).mean(): min_periods defaults to 0, so the
\* first row already holds a number (the first close)
Ewm(name, col, t) == ValueOf(name, SubSeq(col, 1, t))

\* close.diff(): NaN on the first row
Gain(col, t) == IF col[t] > col[t - 1] THEN col[t] - col[t - 1] ELSE 0

Loss(col, t) == IF col[t] < col[t - 1] THEN col[t - 1] - col[t] ELSE 0

RECURSIVE SumGain(_, _, _)
SumGain(col, from, to) ==
    IF from > to THEN 0 ELSE Gain(col, from) + SumGain(col, from + 1, to)

RECURSIVE SumLoss(_, _, _)
SumLoss(col, from, to) ==
    IF from > to THEN 0 ELSE Loss(col, from) + SumLoss(col, from + 1, to)

\* rsi_14 = 100 - (100 / (1 + rs)) with rs = avg_gain / avg_loss; the two
\* rolling means hold a number once the window of 14 rows holds 14
\* differences, that is from row 15; g and l are 14 times the means.
\* With rs infinite, 100 / (1 + rs) is 0.
Rsi14(col, t) ==
    IF t < 15 THEN NaN
    ELSE LET g == SumGain(col, t - 13, t)
             l == SumLoss(col, t - 13, t)
             rs == FloatDiv(g, l)
         IN  IF rs.cls = "nan" THEN NaN
             ELSE IF rs.cls = "inf" THEN Quot(100, 1)
             ELSE Quot(100 * g, g + l)

\* the window of n rows holds one value only (its standard deviation is 0)
ConstantWindow(col, n, t) == \A u \in (t - n + 1)..t : col[u] = col[t]

\* (close - bb_lower) / (bb_upper - bb_lower): 0 / 0 on a constant window
BbPercentB(col, t) ==
    IF t < 20 THEN NaN
    ELSE IF ConstantWindow(col, 20, t) THEN NaN
    ELSE ValueOf("bb_percent_b_20_2", WindowAt(col, 20, t))

\* the fields of the frame the model follows
FrameFieldKind ==
    [ ret_5d |-> "FiniteFloat", sma_5 |-> "FiniteFloat", sma_20 |-> "FiniteFloat",
      ema_20 |-> "FiniteFloat", rsi_14 |-> "FiniteFloat", macd |-> "FiniteFloat",
      macd_signal |-> "FiniteFloat", bb_percent_b_20_2 |-> "FiniteFloat" ]

\* row t of the frame compute_indicators_frame returns
IndicatorRow(col, t) ==
    [ ret_5d |-> PctChange(col, 5, t),
      sma_5 |-> RollingMean(col, 5, t),
      sma_20 |-> RollingMean(col, 20, t),
      ema_20 |-> Ewm("ema_20", col, t),
      rsi_14 |-> Rsi14(col, t),
      macd |-> Ewm("macd", col, t),
      macd_signal |-> Ewm("macd_signal", col, t),
      bb_percent_b_20_2 |-> BbPercentB(col, t) ]

ComputeIndicatorsFrame(col) == [t \in 1..Len(col) |-> IndicatorRow(col, t)]

\* build_indicators_by_date: every row of the frame through
\* _validate_indicators, rows in date order
BuildIndicatorRows(col) ==
    [t \in 1..Len(col) |-> IndicatorsDailyObject(Cleaned(IndicatorRow(col, t)))]

\* every row of the frame passes the validation of IndicatorsDaily
FrameRowsValid(col) ==
    \A t \in 1..Len(col) :
        \A k \in DOMAIN FrameFieldKind :
            FieldAccepts(FrameFieldKind[k], Cleaned(IndicatorRow(col, t))[k])

InitFrame ==
    /\ PipeIdle
    /\ DcNoData
    /\ EcIdle
    /\ IndIdle
    /\ ErIdle
    /\ ChartLogicNew
    /\ op \in {"compute_indicators_frame", "build_indicators_by_date"}
    /\ close \in CloseSeries
    /\ ind_frame = <<>>
    /\ ind_by_date = <<>>

\* compute_indicators_frame(ohlcv_frame=...)
CallComputeIndicatorsFrame ==
    /\ op = "compute_indicators_frame"
    /\ ind_frame = <<>>
    /\ ind_frame' = ComputeIndicatorsFrame(close)
    /\ UNCHANGED << close, ind_by_date >>
    /\ UNCHANGED nonFrVars

\* build_indicators_by_date(ohlcv_frame=...)
CallBuildIndicatorsByDate ==
    /\ op = "build_indicators_by_date"
    /\ ind_by_date = <<>>
    /\ IF FrameRowsValid(close)
       THEN ind_by_date' = BuildIndicatorRows(close)
       ELSE FALSE      \* model_validate raises and nothing is returned
    /\ UNCHANGED << close, ind_frame >>
    /\ UNCHANGED nonFrVars

NextFrame ==
    \/ CallComputeIndicatorsFrame
    \/ CallBuildIndicatorsByDate

SpecFrame == InitFrame /\ [][NextFrame]_vars

\* ------------------------------------------------------------------
\* The errors of contract/errors.py and with_context
\* ------------------------------------------------------------------
\* largest value held under a context key
MaxCtxVal == 2

ContextKeys == {"symbol", "stage"}

\* a context dict or the keyword arguments of a call: key -> value
ContextDicts == UNION { [K -> 1..MaxCtxVal] : K \in SUBSET ContextKeys }

ErrorKinds == DOMAIN Severity

\* code attribute set by the constructors of contract/errors.py
Code ==
    ( "contract.MarketDecisionEngineError" :> "MDE_ERROR"
   @@ "contract.ContractError" :> "CONTRACT_ERROR"
   @@ "contract.ConfigurationError" :> "CONFIGURATION_ERROR"
   @@ "contract.DataError" :> "DATA_ERROR"
   @@ "contract.ExternalDataError" :> "EXTERNAL_DATA_ERROR"
   @@ "contract.ExecutionError" :> "EXECUTION_ERROR"
   @@ "contract.LLMError" :> "LLM_ERROR"
   @@ "contract.SkipTicker" :> "SKIP_TICKER"
   @@ "contract.FatalPipelineError" :> "FATAL_PIPELINE_ERROR" )

\* the parameter names __init__ of the class takes besides self: the
\* dataclass-generated one for the base class, (message, *, context) for
\* every subclass
InitParams(kind) ==
    IF kind = "contract.MarketDecisionEngineError"
    THEN {"message", "code", "severity", "context"}
    ELSE {"message", "context"}

\* kind(message, context=context)
NewError(kind, message, context) ==
    [kind |-> kind, message |-> message, code |-> Code[kind],
     severity |-> Severity[kind], context |-> context]

\* merged = dict(self.context); merged.update(kwargs)
Merged(context, kwargs) ==
    [k \in (DOMAIN context) \cup (DOMAIN kwargs) |->
        IF k \in DOMAIN kwargs THEN kwargs[k] ELSE context[k]]

\* type(self)(message=..., code=..., severity=..., context=merged) is
\* accepted by __init__ of the class
WithContextAccepted(e) ==
    {"message", "code", "severity", "context"} \subseteq InitParams(e.kind)

\* the error with_context returns when the call is accepted
WithContext(e, kwargs) ==
    [kind |-> e.kind, message |-> e.message, code |-> e.code,
     severity |-> e.severity, context |-> Merged(e.context, kwargs)]

InitErrors ==
    /\ PipeIdle
    /\ DcNoData
    /\ EcIdle
    /\ IndIdle
    /\ FrIdle
    /\ ChartLogicNew
    /\ op = "with_context"
    /\ errArgs \in [kind : ErrorKinds, message : {"m"}, context : ContextDicts]
    /\ err = <<>>
    /\ errKw \in ContextDicts
    /\ errNew = <<>>
    /\ errRaised = "none"

\* e = kind(message, context=context)
ConstructError ==
    /\ op = "with_context"
    /\ err = <<>>
    /\ err' = << NewError(errArgs.kind, errArgs.message, errArgs.context) >>
    /\ UNCHANGED << errArgs, errKw, errNew, errRaised >>
    /\ UNCHANGED nonErVars

\* e.with_context(**kwargs)
CallWithContext ==
    /\ op = "with_context"
    /\ err # <<>>
    /\ errNew = <<>>
    /\ errRaised = "none"
    /\ IF WithContextAccepted(err[1])
       THEN /\ errNew' = << WithContext(err[1], errKw) >>
            /\ errRaised' = errRaised
       ELSE /\ errRaised' = "TypeError"
            /\ errNew' = errNew
    /\ UNCHANGED << errArgs, err, errKw >>
    /\ UNCHANGED nonErVars

NextErrors ==
    \/ ConstructError
    \/ CallWithContext

SpecErrors == InitErrors /\ [][NextErrors]_vars

\* ------------------------------------------------------------------
\* ChartLogic: load_charts and scan
\* ------------------------------------------------------------------
\* the frames fetch_ohlcv_frame returns for a ticker are numbered; frame f
\* holds the bars of the days 1..f as the source gave them at that fetch
MaxFrame == 2

ChartTickers == {"T", "U"}

\* the tickers argument of load_charts, as a list
TickerLists == { <<>>, <<"T">>, <<"T", "U">>, <<"U", "T">>, <<"T", "T">> }

Intervals == {"1d", "1wk"}

\* what fetching and deriving for one ticker ends with: a frame, or an
\* exception of fetch_ohlcv_frame
FetchErrors == {"contract.SkipTicker", "contract.ExternalDataError"}

Fetched(f) == [frame |-> f, raised |-> "none"]

FetchFailed(k) == [frame |-> 0, raised |-> k]

\* the date keys of frame f
FrameDates(f) == 1..f

\* the value load_charts stores under a date key of frame f
DailyRecord(f) == [ohlcv |-> f, indicators |-> f, decision_core |-> f]

\* bucket = setdefault(ticker, {}); bucket[date_key] = {...} for every date
StoreTicker(dbt, ticker, f) ==
    LET held == IF ticker \in DOMAIN dbt THEN dbt[ticker] ELSE <<>>
        filled == [d \in (DOMAIN held) \cup FrameDates(f) |->
                      IF d \in FrameDates(f) THEN DailyRecord(f) ELSE held[d]]
    IN  [t \in (DOMAIN dbt) \cup {ticker} |-> IF t = ticker THEN filled ELSE dbt[t]]

\* the dict after the first n iterations of the loop over ticker_list
RECURSIVE StoreFirst(_, _, _, _)
StoreFirst(dbt, ticker_list, fetched, n) ==
    IF n = 0 THEN dbt
    ELSE StoreTicker(StoreFirst(dbt, ticker_list, fetched, n - 1),
                     ticker_list[n], fetched[n].frame)

\* the courses one call can take: the outcome of every ticker reached;
\* only the last one reached can be a failure
Courses(ticker_list) ==
    { c \in UNION { [1..n -> {Fetched(f) : f \in 1..MaxFrame} \cup {FetchFailed(k) : k \in FetchErrors}] :
                      n \in 0..Len(ticker_list) } :
        /\ \A n \in 1..(Len(c) - 1) : c[n].raised = "none"
        /\ Len(c) < Len(ticker_list) => (c # <<>> /\ Last(c).raised # "none") }

CourseFailed(c) == c # <<>> /\ Last(c).raised # "none"

InitChart ==
    /\ PipeIdle
    /\ DcNoData
    /\ EcIdle
    /\ IndIdle
    /\ FrIdle
    /\ ErIdle
    /\ op = "ChartLogic"
    /\ ChartLogicNew

LoadFailure_MarksLoaded(ticker_list, iv) ==
    /\ is_loaded' = TRUE
    /\ UNCHANGED << tickers, interval >>

\* an exception leaves load_charts from inside the loop
LoadFailure(ticker_list, iv) == UNCHANGED << tickers, interval, is_loaded >>

\* the assignments after the loop
LoadSuccess(ticker_list, iv) ==
    /\ tickers' = ticker_list
    /\ interval' = iv
    /\ is_loaded' = TRUE

\* load_charts(tickers, interval=iv)
ChartLoadCharts ==
    /\ op = "ChartLogic"
    /\ \E ticker_list \in TickerLists, iv \in Intervals :
         \E c \in Courses(ticker_list) :
            LET stored == IF CourseFailed(c) THEN Len(c) - 1 ELSE Len(c)
            IN  /\ daily_by_ticker' = StoreFirst(daily_by_ticker, ticker_list, c, stored)
                /\ IF CourseFailed(c)
                   THEN LoadFailure(ticker_list, iv)
                   ELSE LoadSuccess(ticker_list, iv)
                /\ chartCall' = [op |-> "load_charts", tickers |-> ticker_list, interval |-> iv,
                                 course |-> c, raised |-> IF CourseFailed(c) THEN Last(c).raised ELSE "none"]
    /\ UNCHANGED nonChVars

ScanViews == {"ohlcv", "indicators", "decision", "other"}

ScanRaises_KeyErrorFirst(ticker, view) ==
    IF ticker \notin DOMAIN daily_by_ticker THEN "KeyError"
    ELSE IF ~is_loaded THEN "RuntimeError"
    ELSE IF view \notin {"ohlcv", "indicators", "decision"} THEN "ValueError"
    ELSE "none"

\* the exception scan(ticker=..., view=...) raises, "none" when it returns a table
ScanRaises(ticker, view) ==
    IF ~is_loaded THEN "RuntimeError"
    ELSE IF ticker \notin DOMAIN daily_by_ticker THEN "KeyError"
    ELSE IF view \notin {"ohlcv", "indicators", "decision"} THEN "ValueError"
    ELSE "none"

\* scan(ticker=..., view=...)
ChartScan ==
    /\ op = "ChartLogic"
    /\ \E ticker \in ChartTickers, view \in ScanViews :
            chartCall' = [op |-> "scan", ticker |-> ticker, view |-> view,
                          raised |-> ScanRaises(ticker, view)]
    /\ UNCHANGED << daily_by_ticker, tickers, interval, is_loaded >>
    /\ UNCHANGED nonChVars

NextChart ==
    \/ ChartLoadCharts
    \/ ChartScan

SpecChart == InitChart /\ [][NextChart]_vars

\* ------------------------------------------------------------------
\* Observations shared by the properties of run
\* ------------------------------------------------------------------
\* run has returned or raised
RunEnded == pc \in {"raised", "done"}

\* selection, ranking and the empty-candidate check are behind run
RankingOver ==
    \/ pc \in {"stage4", "report", "done"}
    \/ /\ pc = "raised"
       /\ symbols # <<>>
       /\ i > Len(symbols)
       /\ per_symbol # <<>>
       /\ exc.raisedBy \notin {"select_candidates", "rank_candidates"}

\* the iterations of a stage that concern sym
OutcomesOf(stage, sym) ==
    {n \in 1..Len(outcomes) : outcomes[n].stage = stage /\ outcomes[n].sym = sym}

IsolatedFamilies == {"SkipSymbol", "DegradedError"}

\* sym met a SkipSymbol or a DegradedError in stage 2 or stage 4
FailedIsolated(sym) ==
    \E n \in 1..Len(outcomes) : outcomes[n].sym = sym /\ outcomes[n].kind \in IsolatedFamilies

\* every service called for sym returned normally, stage 2 and decide_for_symbol included
OwnServicesSucceed(sym) ==
    /\ OutcomesOf(2, sym) # {}
    /\ OutcomesOf(4, sym) # {}
    /\ \A n \in 1..Len(outcomes) : outcomes[n].sym = sym => outcomes[n].kind = "ok"

DecisionsFor(decs, sym) == Cardinality({n \in 1..Len(decs) : decs[n].symbol = sym})

\* the values decide_for_symbol returned, in call order
ReturnedDecisions ==
    LET oks == SelectSeq(outcomes, LAMBDA o : o.stage = 4 /\ o.kind = "ok")
    IN  [n \in 1..Len(oks) |-> oks[n].val[1]]

\* positions of the candidates that are no key of the feature map
ForeignPositions == {n \in 1..Len(candidates) : candidates[n] \notin Range(per_symbol)}

FirstForeign == CHOOSE n \in ForeignPositions : \A m \in ForeignPositions : n <= m

\* ------------------------------------------------------------------
\* C1  Every exception that leaves run is a MarketDecisionEngineError:
\*     unclassified exceptions of any service or of the DecisionPack
\*     assembly are promoted to FatalError.
\* ------------------------------------------------------------------
C1_EscapesAreClassified ==
    exc # NoError => IsInstance(exc.kind, "MarketDecisionEngineError")

\* ------------------------------------------------------------------
\* C2  Every constructed DecisionCore whose buy_signal is NO has no
\*     execution field and a position_size of 0 or None, whether built
\*     through the schema or emitted by build_decision_core_by_date.
\* ------------------------------------------------------------------
C2_NoSignalHasNoExecution ==
    \A d \in dcBuilt :
        d.buy_signal = "NO" =>
            /\ d.entry = None /\ d.stop = None
            /\ d.target_2r = None /\ d.target_3r = None
            /\ d.max_loss = None
            /\ (d.position_size = None \/ d.position_size[1] = 0)

\* ------------------------------------------------------------------
\* C3  Isolation.  As claimed: when a symbol meets SkipSymbol or
\*     DegradedError, every other symbol whose own services succeed keeps
\*     its feature-map entry, has exactly one decision in the final pack
\*     and is not in skipped.
\* ------------------------------------------------------------------
C3_ExactlyOneDecision ==
    pc \in {"report", "done"} =>
        \A s \in Symbols :
            (OwnServicesSucceed(s) /\ \E t \in Symbols \ {s} : FailedIsolated(t)) =>
                /\ s \in Range(per_symbol)
                /\ DecisionsFor(pack[1].decisions, s) = 1
                /\ s \notin Range(skipped)

\* C3 as amended: such a symbol keeps its feature-map entry, has exactly one
\* decision in the final pack for each time the candidate list names it, and
\* is not in skipped.
C3_Isolation ==
    pc \in {"report", "done"} =>
        \A s \in Symbols :
            (OwnServicesSucceed(s) /\ \E t \in Symbols \ {s} : FailedIsolated(t)) =>
                /\ s \in Range(per_symbol)
                /\ DecisionsFor(pack[1].decisions, s) = Count(candidates, s)
                /\ s \notin Range(skipped)

C3_Witness ==
    /\ pc = "done"
    /\ \E s \in Symbols, t \in Symbols :
        /\ s # t
        /\ OwnServicesSucceed(s)
        /\ \E n \in OutcomesOf(4, t) : outcomes[n].kind = "DegradedError"
        /\ DecisionsFor(pack[1].decisions, s) = 1
        /\ t \in Range(skipped)

\* ------------------------------------------------------------------
\* C4  A per-symbol service failing in stage 2 or 4 with DataError,
\*     ExternalDataError, SkipTicker or SkipSymbol, or with an error of
\*     severity degraded or skip, is isolated: the symbol goes to skipped
\*     and the run continues.
\* ------------------------------------------------------------------
SeverityOf(k) == IF k \in DOMAIN Severity THEN Severity[k] ELSE "none"

C4_DataAndSkipKindsIsolated ==
    ( /\ lastRaised.raisedBy \in PerSymbolServices
      /\ \/ lastRaised.kind \in {"contract.DataError", "contract.ExternalDataError",
                                 "contract.SkipTicker", "SkipSymbol"}
         \/ SeverityOf(lastRaised.kind) \in {"degraded", "skip"} )
    => /\ exc = NoError
       /\ skipped # <<>>
       /\ Last(skipped) = lastRaised.sym

\* ------------------------------------------------------------------
\* C5  Fail-fast on emptiness: an empty universe, no surviving symbol
\*     after stage 2, or an empty candidate list after selection and
\*     ranking each make run raise FatalError without calling any
\*     later-stage service or build_report.
\* ------------------------------------------------------------------
C5_FailFastOnEmpty ==
    /\ ( /\ "build_universe" \in called
         /\ exc.raisedBy # "build_universe"
         /\ pc # "universe"
         /\ symbols = <<>> )
       => /\ pc = "raised"
          /\ exc = RunError("FatalError", "Universe is empty.")
          /\ called = {"build_universe"}
    /\ ( /\ symbols # <<>>
         /\ i > Len(symbols)
         /\ pc # "stage2"
         /\ per_symbol = <<>> )
       => /\ pc = "raised"
          /\ exc.kind = "FatalError"
          /\ exc.raisedBy = "run"
          /\ called \subseteq ({"build_universe"} \cup Range(FeatureServices))
    /\ ( RankingOver /\ candidates = <<>> )
       => /\ pc = "raised"
          /\ exc = RunError("FatalError", "Candidate list is empty.")
          /\ "decide_for_symbol" \notin called
          /\ "build_report" \notin called
          /\ reportArgs = <<>>

C5_Witness ==
    /\ pc = "raised"
    /\ "rank_candidates" \in called
    /\ lastRaised = NoError
    /\ candidates = <<>>
    /\ Len(per_symbol) >= 2
    /\ exc.kind = "FatalError"

\* ------------------------------------------------------------------
\* C6  A candidate that is no key of the surviving feature map.  As
\*     claimed: at whatever position it stands, run raises
\*     ContractViolation, the symbol is not added to skipped and
\*     build_report is never called.
\* ------------------------------------------------------------------
\* skipped holds sym exactly as often as sym failed in isolation
NotAddedBeyondOwnFailures(sym) ==
    Count(skipped, sym) =
        Cardinality({n \in 1..Len(outcomes) :
                        outcomes[n].sym = sym /\ outcomes[n].kind \in IsolatedFamilies})

C7_NoReportOnAbort ==
    /\ Len(reportArgs) <= 1
    /\ reportArgs # <<>> =>
          /\ j > Len(candidates)
          /\ Cardinality({n \in 1..Len(outcomes) : outcomes[n].stage = 4}) = Len(candidates)
          /\ reportArgs[1].pack.decisions = ReturnedDecisions
          /\ "build_report" \in called
    /\ "build_report" \in called => reportArgs # <<>>
    /\ (exc # NoError /\ exc.raisedBy # "build_report") => reportArgs = <<>>
    /\ exc # NoError => report = <<>>
    /\ report # <<>> => reportArgs # <<>>

C7_Witness ==
    /\ pc = "done"
    /\ Len(reportArgs) = 1
    /\ Len(reportArgs[1].pack.decisions) >= 1
    /\ \E n \in 1..Len(outcomes) : outcomes[n].stage = 4 /\ outcomes[n].kind = "SkipSymbol"

\* ------------------------------------------------------------------
\* C8  A FatalError, ContractViolation or ConfigurationError raised by a
\*     per-symbol service in stage 2 or 4 aborts the run at once: the
\*     same error leaves run unwrapped and no service is invoked after
\*     the call that raised it.
\* ------------------------------------------------------------------
C8_FatalPropagatesUnwrapped ==
    ( /\ lastRaised.raisedBy \in PerSymbolServices
      /\ lastRaised.kind \in {"FatalError", "ContractViolation", "ConfigurationError"} )
    => /\ pc = "raised"
       /\ exc = lastRaised
       /\ lastCall.svc = lastRaised.raisedBy
       /\ lastCall.sym = lastRaised.sym
       /\ "build_report" \notin called

C8_Witness ==
    /\ pc = "raised"
    /\ exc.kind = "ConfigurationError"
    /\ exc.raisedBy = "preprocess_ohlcv"
    /\ i = 1
    /\ Len(symbols) >= 2
    /\ lastCall.sym = symbols[1]

\* ------------------------------------------------------------------
\* C9  Degraded is monotonic within a run: over the context values run
\*     produces the degraded flag never goes from true to false, and
\*     degraded_reasons only grows by appending.
\* ------------------------------------------------------------------
C9_DegradedMonotonic ==
    /\ ctx = Last(ctxs)
    /\ ctxs[1] = ctx0
    /\ \A a \in 1..(Len(ctxs) - 1) :
          /\ ctxs[a].degraded => ctxs[a + 1].degraded
          /\ IsPrefix(Reasons(ctxs[a]), Reasons(ctxs[a + 1]))

C9_Witness ==
    /\ pc = "done"
    /\ ctx0.degraded
    /\ Len(Reasons(ctx)) >= 3
    /\ ctx.notes["candidate_size"] # Absent

\* ------------------------------------------------------------------
\* C10 Handling a SkipSymbol in stage 2 or 4 appends that one symbol,
\*     once, to skipped and leaves the context unchanged; in a run whose
\*     only failures are SkipSymbol, build_report sees the degraded flag
\*     the run started with.
\* ------------------------------------------------------------------
SkipSymbolHandled ==
    /\ outcomes' # outcomes
    /\ lastRaised'.kind = "SkipSymbol"
    /\ lastRaised'.raisedBy \in PerSymbolServices

C10_SkipLeavesDegraded ==
    /\ [][ SkipSymbolHandled =>
              /\ skipped' = Append(skipped, lastRaised'.sym)
              /\ ctx' = ctx
              /\ degraded_reasons' = degraded_reasons
              /\ exc' = NoError ]_vars
    /\ []( ( /\ reportArgs # <<>>
             /\ \A n \in 1..Len(outcomes) : outcomes[n].kind \in {"ok", "SkipSymbol"} )
           => /\ reportArgs[1].ctx.degraded = ctx0.degraded
              /\ Reasons(reportArgs[1].ctx) = Reasons(ctx0) )

C10_Witness ==
    /\ pc = "done"
    /\ \E n \in 1..Len(outcomes) : outcomes[n].stage = 2 /\ outcomes[n].kind = "SkipSymbol"
    /\ \E n \in 1..Len(outcomes) : outcomes[n].stage = 4 /\ outcomes[n].kind = "SkipSymbol"
    /\ \A n \in 1..Len(outcomes) : outcomes[n].kind \in {"ok", "SkipSymbol"}
    /\ Len(skipped) = 2
    /\ ~reportArgs[1].ctx.degraded

\* ------------------------------------------------------------------
\* C11 Every report returned by run states whether the run was degraded
\*     and lists every symbol skipped in stage 2 or stage 4, each
\*     degraded symbol with the message of the DegradedError that
\*     removed it, under every config.
\* ------------------------------------------------------------------
\* part occurs in text
Contains(text, part) ==
    \E a \in 0..(Len(text) - Len(part)) : SubSeq(text, a + 1, a + Len(part)) = part

\* the reason texts a report shows: its warnings and its degraded_reasons note
ReportedReasons(r) ==
    (IF r.short_summary = <<>> THEN {} ELSE Range(r.short_summary[1].warnings))
    \cup
    (IF r.decision_pack.notes["degraded_reasons"] = Absent
     THEN {} ELSE Range(r.decision_pack.notes["degraded_reasons"][1]))

C11_ReportListsSkippedWithReasons ==
    report # <<>> =>
        LET r == report[1]
        IN  /\ r.decision_pack.degraded = ctx.degraded
            /\ \A n \in 1..Len(outcomes) :
                  outcomes[n].kind \in IsolatedFamilies =>
                      /\ r.decision_pack.skipped_symbols # <<>>
                      /\ outcomes[n].sym \in Range(r.decision_pack.skipped_symbols[1])
                      /\ outcomes[n].kind = "DegradedError" =>
                            \E t \in ReportedReasons(r) : Contains(t, <<"msg", outcomes[n].sym>>)

\* ------------------------------------------------------------------
\* C12 Context values are never mutated in place: the observable content
\*     (degraded flag and notes, the list under skipped_symbols included)
\*     of a context handed to a service is the same after every later
\*     step of run.
\* ------------------------------------------------------------------
\* what a holder of context c reads from it while the list skipped holds skp
Content(c, skp) ==
    [ degraded |-> c.degraded,
      notes |-> [k \in NoteKeys |->
                    IF k = "skipped_symbols" /\ c.notes[k] # Absent THEN <<skp>> ELSE c.notes[k]] ]

C12_ContextsNeverMutated ==
    [][ lastCall.svc # "none" =>
            Content(lastCall.ctx, skipped') = Content(lastCall.ctx, skipped) ]_vars

\* ------------------------------------------------------------------
\* C13 Per-symbol independence: every symbol's stage-2 services get the
\*     context run held when stage 2 began and every decide_for_symbol
\*     call gets the context run held when stage 4 began, whatever the
\*     outcomes of the other symbols of the stage.
\* ------------------------------------------------------------------
\* the first context of the run that carries the note key
FirstWith(key) ==
    ctxs[CHOOSE n \in 1..Len(ctxs) :
            /\ ctxs[n].notes[key] # Absent
            /\ \A m \in 1..(n - 1) : ctxs[m].notes[key] = Absent]

C13_SameContextForEverySymbol ==
    /\ lastCall.svc \in Range(FeatureServices) => lastCall.ctx = FirstWith("universe_size")
    /\ lastCall.svc = "decide_for_symbol" => lastCall.ctx = FirstWith("candidate_size")

\* ------------------------------------------------------------------
\* C14 No execution context whose policy snapshot's as-of date differs
\*     from its run context's as-of date can be constructed, through
\*     build_engine_context or through EngineContext itself.
\* ------------------------------------------------------------------
C14_AsofAlwaysMatches ==
    /\ ecBuilt # <<>> => ecBuilt[1].policy.asof = ecBuilt[1].run.asof
    /\ (ecArgs.policy.asof # ecArgs.run.asof /\ (ecBuilt # <<>> \/ ecError # NoError)) =>
          /\ ecBuilt = <<>>
          /\ ecError.kind = "ConfigurationError"

\* ------------------------------------------------------------------
\* C15 A DecisionCore with buy_signal YES or YES_HALF is constructed only
\*     if all six execution fields are present, stop < entry < target_2r
\*     < target_3r, target_2r >= entry + 2R, target_3r >= entry + 3R and
\*     position_size > 0; otherwise no object exists.
\* ------------------------------------------------------------------
C15_ActiveStructureEnforced ==
    \A d \in dcBuilt :
        d.buy_signal \in {"YES", "YES_HALF"} =>
            /\ \A v \in {d.entry, d.stop, d.target_2r, d.target_3r, d.position_size, d.max_loss} :
                  v # None
            /\ d.stop[1] < d.entry[1]
            /\ d.entry[1] < d.target_2r[1]
            /\ d.target_2r[1] < d.target_3r[1]
            /\ d.target_2r[1] >= d.entry[1] + 2 * (d.entry[1] - d.stop[1])
            /\ d.target_3r[1] >= d.entry[1] + 3 * (d.entry[1] - d.stop[1])
            /\ d.position_size[1] > 0

\* ------------------------------------------------------------------
\* C16 A decision is always produced: build_decision_core_by_date returns
\*     exactly one DecisionCore for every date key of ohlcv_by_date, also
\*     for a date without IndicatorSet; and for every frame, duplicate
\*     dates and gaps included, the OHLCV map, the indicator map and the
\*     decision map built by load_charts have the same date keys, so
\*     every stored date has all three records.
\* ------------------------------------------------------------------
C16_DecisionForEveryDate ==
    /\ \A n \in 1..Len(decision_by_date) : DOMAIN decision_by_date[n] = ohlcv_by_date
    /\ (op = "load_charts" /\ decision_by_date # <<>>) =>
          /\ DOMAIN indicators_by_date = ohlcv_by_date
          /\ ~dcError
          /\ DOMAIN bucket = ohlcv_by_date
          /\ \A k \in DOMAIN bucket :
                /\ bucket[k].indicators = indicators_by_date[k]
                /\ bucket[k].decision_core = decision_by_date[1][k]
    /\ (op = "load_charts" /\ dcError) => bucket = <<>>

C16_Witness ==
    /\ op = "load_charts"
    /\ bucket # <<>>
    /\ ohlcv_frame.lead > 0
    /\ Len(ohlcv_frame.rows) = 2
    /\ ohlcv_frame.rows[1].date.ty = "Timestamp"
    /\ ohlcv_frame.rows[1].date.time = 1
    /\ OhlcvDateKey(ohlcv_frame.rows[1].date) = OhlcvDateKey(ohlcv_frame.rows[2].date)
    /\ OhlcvDateKey(ohlcv_frame.rows[2].date) = IsoDate(2)
    /\ bucket[IsoDate(2)].decision_core.plan_args = <<IsoDate(2), "active">>
    /\ bucket[IsoDate(0)].decision_core.plan_args = <<IsoDate(0), "inactive">>

\* ------------------------------------------------------------------
\* C17 The decision of a day is active exactly when hh_20 and ll_20 are
\*     both present and hh_20 > ll_20; then entry = hh_20, stop = ll_20,
\*     target_2r = entry + 2R and target_3r = entry + 3R; in every other
\*     case the decision is NO with all execution fields absent and the
\*     warning insufficient_indicators.
\* ------------------------------------------------------------------
\* the breakout structure of the IndicatorSet of a day
HasStructure(ind) ==
    /\ ind.hh_20 # None
    /\ ind.ll_20 # None
    /\ ind.hh_20[1] > ind.ll_20[1]

C17_ActiveExactlyOnStructure ==
    \A n \in 1..Len(decision_by_date) :
        \A d \in DOMAIN decision_by_date[n] :
            LET dec == decision_by_date[n][d]
                ind == IndicatorsFor(indicators_by_date, d)
            IN  /\ dec.plan_args \in {<<d, "active">>, <<d, "inactive">>}
                /\ (dec.plan_args = <<d, "active">>) <=> HasStructure(ind)
                /\ HasStructure(ind) =>
                      /\ dec.entry = ind.hh_20
                      /\ dec.stop = ind.ll_20
                      /\ dec.target_2r = Some(ind.hh_20[1] + 2 * (ind.hh_20[1] - ind.ll_20[1]))
                      /\ dec.target_3r = Some(ind.hh_20[1] + 3 * (ind.hh_20[1] - ind.ll_20[1]))
                /\ ~HasStructure(ind) =>
                      /\ dec.buy_signal = "NO"
                      /\ \A v \in {dec.entry, dec.stop, dec.target_2r, dec.target_3r,
                                     dec.position_size, dec.max_loss} : v = None
                      /\ "insufficient_indicators" \in Range(dec.warnings)

C17_Witness ==
    /\ decision_by_date # <<>>
    /\ \E d \in DOMAIN decision_by_date[1], e \in DOMAIN decision_by_date[1] :
          /\ decision_by_date[1][d].plan_args = <<d, "active">>
          /\ decision_by_date[1][d].target_3r = Some(5)
          /\ e \in DOMAIN indicators_by_date
          /\ indicators_by_date[e].hh_20 = Some(1)
          /\ indicators_by_date[e].ll_20 = Some(1)
          /\ decision_by_date[1][e].plan_args = <<e, "inactive">>

\* ------------------------------------------------------------------
\* C18 Policy traceability: every DecisionCore build_decision_core_by_date
\*     produces carries the policy's time_stop_days verbatim and the
\*     fingerprint of that policy, on active and inactive days alike.
\* ------------------------------------------------------------------
C18_PolicyTraceable ==
    \A n \in 1..Len(decision_by_date) :
        \A d \in DOMAIN decision_by_date[n] :
            /\ decision_by_date[n][d].time_stop_days = policy.time_stop_days
            /\ decision_by_date[n][d].policy_snapshot_id = PolicySnapshotId(policy)
            /\ \A other \in Policies :
                  other # policy => decision_by_date[n][d].policy_snapshot_id # PolicySnapshotId(other)

C18_Witness ==
    /\ decision_by_date # <<>>
    /\ policy.time_stop_days = 1
    /\ policy.atr_n = 20
    /\ \E d \in DOMAIN decision_by_date[1], e \in DOMAIN decision_by_date[1] :
          /\ decision_by_date[1][d].plan_args = <<d, "active">>
          /\ decision_by_date[1][e].plan_args = <<e, "inactive">>
          /\ decision_by_date[1][d].time_stop_days = 1
          /\ decision_by_date[1][e].time_stop_days = 1

C20_NoNonFiniteField ==
    indBuilt # <<>> =>
        \A k \in DOMAIN indBuilt[1] : indBuilt[1][k] = PyNone \/ IsFinite(indBuilt[1][k])

\* ------------------------------------------------------------------
\* C21 Missing-propagation: an indicator defined over a window of N
\*     observations is missing on every row with fewer than N
\*     observations up to and including it, never a number there; sma_20
\*     is missing on rows 1 to 19 and present from row 20.
\* ------------------------------------------------------------------
\* the number of observations each followed field is defined over
WindowOf ==
    [ ret_5d |-> 5, sma_5 |-> 5, sma_20 |-> 20, ema_20 |-> 20, rsi_14 |-> 14,
      macd |-> 26, macd_signal |-> 26, bb_percent_b_20_2 |-> 20 ]

Missing(v) == v.ty = "NoneType"

C21_MissingBeforeWindow ==
    \A t \in 1..Len(ind_by_date) :
        /\ \A k \in DOMAIN WindowOf : t < WindowOf[k] => Missing(ind_by_date[t][k])
        /\ t >= 20 => ~Missing(ind_by_date[t].sma_20)

\* ------------------------------------------------------------------
\* C22 rsi_14 is missing on every row where the 14-period average loss
\*     is 0 (a history of strictly increasing closes included), and an
\*     indicator whose formula divides by zero on a row is missing on
\*     that row rather than a number.
\* ------------------------------------------------------------------
C22_DivisionByZeroIsMissing ==
    \A t \in 1..Len(ind_by_date) :
        /\ (t >= 15 /\ SumLoss(close, t - 13, t) = 0) => Missing(ind_by_date[t].rsi_14)
        /\ (t >= 20 /\ ConstantWindow(close, 20, t)) => Missing(ind_by_date[t].bb_percent_b_20_2)
        /\ (t > 5 /\ close[t - 5] = 0) => Missing(ind_by_date[t].ret_5d)

\* ------------------------------------------------------------------
\* C23 The decisions of the final pack appear in candidate order with the
\*     failed candidates removed; the candidate order is the output of
\*     rank_candidates when supplied, else the output of
\*     select_candidates when supplied, else all surviving symbols in
\*     universe order; which symbols failed never changes the order.
\* ------------------------------------------------------------------
\* the iterations of a stage, in the order they ran
StageOutcomes(stage) == SelectSeq(outcomes, LAMBDA o : o.stage = stage)

\* the symbols of the iterations of a stage that returned normally
OkSymbols(stage) ==
    LET oks == SelectSeq(outcomes, LAMBDA o : o.stage = stage /\ o.kind = "ok")
    IN  [n \in 1..Len(oks) |-> oks[n].sym]

\* s without the later occurrences of a repeated element
RECURSIVE FirstOccurrences(_)
FirstOccurrences(s) ==
    IF s = <<>> THEN <<>>
    ELSE LET before == FirstOccurrences(SubSeq(s, 1, Len(s) - 1))
         IN  IF Last(s) \in Range(before) THEN before ELSE Append(before, Last(s))

\* the surviving symbols, in the order the universe had them loaded
Survivors == FirstOccurrences(OkSymbols(2))

CandidatesFixed == pc \in {"stage4", "report", "done"}

WithContextCalled == err # <<>> /\ (errNew # <<>> \/ errRaised # "none")

C24_WithContextReturnsSameKind ==
    WithContextCalled =>
        /\ errRaised = "none"
        /\ errNew # <<>>
        /\ errNew[1].kind = err[1].kind
        /\ errNew[1].message = err[1].message
        /\ errNew[1].code = err[1].code
        /\ errNew[1].severity = err[1].severity
        /\ errNew[1].context = Merged(errArgs.context, errKw)
        /\ err[1].context = errArgs.context

\* ------------------------------------------------------------------
\* C25 ChartLogic load state: is_loaded is false after construction,
\*     becomes true only when a load_charts call returns normally, and
\*     never reverts to false; scan raises RuntimeError whenever
\*     is_loaded is false, and when is_loaded is true raises KeyError for
\*     any ticker that no load_charts call has stored.
\* ------------------------------------------------------------------
LoadReturned(call) == call.op = "load_charts" /\ call.raised = "none"

ScanOutcomeOK ==
    chartCall.op = "scan" =>
        /\ ~is_loaded => chartCall.raised = "RuntimeError"
        /\ (is_loaded /\ chartCall.ticker \notin DOMAIN daily_by_ticker) =>
                chartCall.raised = "KeyError"
        /\ chartCall.raised = "RuntimeError" => ~is_loaded

C25_LoadState ==
    /\ [](chartCall = NoChartCall => ~is_loaded)
    /\ []ScanOutcomeOK
    /\ [][ /\ is_loaded => is_loaded'
           /\ (~is_loaded /\ is_loaded') => LoadReturned(chartCall')
           /\ (chartCall' # chartCall /\ LoadReturned(chartCall')) => is_loaded' ]_vars

C25_Witness ==
    /\ is_loaded
    /\ chartCall.op = "scan"
    /\ chartCall.ticker = "U"
    /\ chartCall.raised = "KeyError"
    /\ "T" \in DOMAIN daily_by_ticker

\* ------------------------------------------------------------------
\* C30 A load_charts call that fails while processing the k-th ticker of
\*     its list leaves is_loaded, interval and the recorded ticker list
\*     unchanged and stores nothing for the failing ticker, but keeps in
\*     charts the complete per-date records already stored for the first
\*     k-1 tickers of that call and everything stored by earlier calls.
\* ------------------------------------------------------------------
LoadRaised(call) == call.op = "load_charts" /\ call.raised # "none"

\* the iterations of the call that ended before the failing one
StoredIterations(call) == 1..(Len(call.course) - 1)

\* the call stored a record for ticker t under date d before it failed
StoredByCall(call, t, d) ==
    \E n \in StoredIterations(call) :
        call.tickers[n] = t /\ d \in FrameDates(call.course[n].frame)

CompleteRecord(r) == DOMAIN r = {"ohlcv", "indicators", "decision_core"}

C30_FailedLoadKeepsEarlierRecords ==
    [][ LoadRaised(chartCall') =>
          /\ is_loaded' = is_loaded
          /\ interval' = interval
          /\ tickers' = tickers
          /\ \A t \in DOMAIN daily_by_ticker' :
                \A d \in DOMAIN daily_by_ticker'[t] :
                    IF StoredByCall(chartCall', t, d)
                    THEN CompleteRecord(daily_by_ticker'[t][d])
                    ELSE /\ t \in DOMAIN daily_by_ticker
                         /\ d \in DOMAIN daily_by_ticker[t]
                         /\ daily_by_ticker'[t][d] = daily_by_ticker[t][d]
          /\ \A n \in StoredIterations(chartCall') :
                \A d \in FrameDates(chartCall'.course[n].frame) :
                    /\ chartCall'.tickers[n] \in DOMAIN daily_by_ticker'
                    /\ d \in DOMAIN daily_by_ticker'[chartCall'.tickers[n]]
          /\ \A t \in DOMAIN daily_by_ticker :
                /\ t \in DOMAIN daily_by_ticker'
                /\ DOMAIN daily_by_ticker[t] \subseteq DOMAIN daily_by_ticker'[t]
          /\ \A t \in DOMAIN daily_by_ticker' :
                t \in DOMAIN daily_by_ticker \/ \E n \in StoredIterations(chartCall') : chartCall'.tickers[n] = t
      ]_vars

C30_Witness ==
    /\ LoadRaised(chartCall)
    /\ chartCall.tickers = <<"T", "U">>
    /\ chartCall.interval = "1wk"
    /\ Len(chartCall.course) = 2
    /\ is_loaded
    /\ interval = "1d"
    /\ tickers = <<"U", "T">>
    /\ daily_by_ticker["T"][1] = DailyRecord(chartCall.course[1].frame)
    /\ DOMAIN daily_by_ticker["U"] = FrameDates(MaxFrame)

\* ------------------------------------------------------------------
\* C26 Every DecisionCore emitted by build_decision_core_by_date has
\*     buy_signal NO and position_size absent or 0, also on days where
\*     the breakout structure is active; no sequence of inputs makes the
\*     derivation emit YES or YES_HALF.
\* ------------------------------------------------------------------
C26_DerivationAlwaysNo ==
    \A n \in 1..Len(decision_by_date) :
        \A d \in DOMAIN decision_by_date[n] :
            /\ decision_by_date[n][d].buy_signal = "NO"
            /\ decision_by_date[n][d].position_size \in {None, Some(0)}

C26_Witness ==
    /\ Len(decision_by_date) = MaxCalls
    /\ \E d \in DOMAIN decision_by_date[MaxCalls] :
          /\ HasStructure(IndicatorsFor(indicators_by_date, d))
          /\ decision_by_date[MaxCalls][d].entry # None
          /\ decision_by_date[MaxCalls][d].buy_signal = "NO"
          /\ decision_by_date[MaxCalls][d].position_size = Some(0)
    /\ \E d \in DOMAIN decision_by_date[MaxCalls] :
          decision_by_date[MaxCalls][d].position_size = None

\* ------------------------------------------------------------------
\* C27 Missing required services are detected at start-up: when one of
\*     the six required services is None, run raises ContractViolation
\*     before any service is invoked, so build_universe is never called
\*     and no symbol is loaded.
\* ------------------------------------------------------------------
MissingRequired == absent \cap Range(RequiredServices)

C27_MissingServiceDetectedAtStart ==
    MissingRequired # {} =>
        /\ called = {}
        /\ lastCall = NoCall
        /\ symbols = <<>>
        /\ per_symbol = <<>>
        /\ outcomes = <<>>
        /\ reportArgs = <<>>
        /\ \/ pc = "require" /\ exc = NoError
           \/ /\ pc = "raised"
              /\ exc.kind = "ContractViolation"
              /\ exc.raisedBy = "run"

C27_Witness ==
    /\ MissingRequired = {"build_report"}
    /\ pc = "raised"
    /\ exc.kind = "ContractViolation"
    /\ exc.msg = << <<"Missing required service", "build_report">> >>
    /\ called = {}

\* ------------------------------------------------------------------
\* C29 Every DecisionCore held by a DecisionPack that run hands to
\*     build_report has buy_signal NO exactly when execution.quantity is
\*     0, has stop_price < entry_price < target_price, and has
\*     risk_amount, reward_amount and r_multiple all 0 when quantity is
\*     0; a value returned by decide_for_symbol that breaks these never
\*     reaches build_report.
\* ------------------------------------------------------------------
SignalMatchesQuantity(d) ==
    /\ (d.buy_signal = "NO") <=> (d.execution.quantity = 0)
    /\ d.execution.stop_price < d.execution.entry_price
    /\ d.execution.entry_price < d.execution.target_price
    /\ d.execution.quantity = 0 =>
          /\ d.execution.risk_amount = 0
          /\ d.execution.reward_amount = 0
          /\ d.execution.r_multiple = 0

C29_PackedDecisionsAreConsistent ==
    \A n \in 1..Len(reportArgs) :
        \A m \in 1..Len(reportArgs[n].pack.decisions) :
            SignalMatchesQuantity(reportArgs[n].pack.decisions[m])

\* ------------------------------------------------------------------
\* C28 Accounting at the moment build_report is called, for a universe
\*     and a candidate list without duplicates: skipped has no
\*     duplicates, no symbol is both decided and skipped, decisions plus
\*     stage-4 skips number the candidates, and every universe symbol
\*     that is neither decided nor skipped is a survivor that selection
\*     left out of the candidates.
\* ------------------------------------------------------------------
DuplicateFree(s) == \A a \in 1..Len(s), b \in 1..Len(s) : s[a] = s[b] => a = b

\* the symbols whose iteration of a stage ended in skipped.append
SkippedIn(stage) ==
    LET left == SelectSeq(outcomes, LAMBDA o : o.stage = stage /\ o.kind # "ok")
    IN  [n \in 1..Len(left) |-> left[n].sym]

C28_Accounting ==
    (reportArgs # <<>> /\ DuplicateFree(symbols) /\ DuplicateFree(candidates)) =>
        LET args == reportArgs[1]
            decided == {args.pack.decisions[n].symbol : n \in 1..Len(args.pack.decisions)}
        IN  /\ args.skipped = skipped
            /\ skipped = SkippedIn(2) \o SkippedIn(4)
            /\ DuplicateFree(args.skipped)
            /\ decided \cap Range(args.skipped) = {}
            /\ Len(args.pack.decisions) + Len(SkippedIn(4)) = Len(candidates)
            /\ \A sym \in Range(symbols) \ (decided \cup Range(args.skipped)) :
                  /\ sym \in Range(per_symbol)
                  /\ sym \notin Range(candidates)

C28_Witness ==
    /\ pc = "done"
    /\ symbols = <<"A", "B">>
    /\ per_symbol = <<"A", "B">>
    /\ candidates = <<"B">>
    /\ reportArgs[1].pack.decisions = <<>>
    /\ reportArgs[1].skipped = <<"B">>

TypeOK ==
    /\ pc \in {"idle", "require", "universe", "stage2", "select", "rank", "stage4", "report", "done", "raised"}
    /\ (pc = "raised") <=> (exc # NoError)
    /\ (pc = "done") <=> (report # <<>>)

====
